---- MODULE Spec2Model ----
(***************************************************************************)
(* Deal pipeline of crm-realmkit: DealService (stage moves, value          *)
(* recalculation, rotten-deal detection) over the Prisma store.            *)
(*                                                                         *)
(* Units.  Time is counted in half days (DayTicks = 2 ticks per day), so   *)
(* that Math.floor of a day count is observable.  Money is counted in      *)
(* cents where it is stored (Decimal(12,2), Decimal(10,2)) and in 1/100 of *)
(* a cent where calculateDealValue computes an unrounded number.           *)
(***************************************************************************)
EXTENDS Integers, Sequences, FiniteSets, TLC

\* ------------------------------------------------------------------ bounds
MaxTime == 1          \* clock horizon of Spec and SpecConc (ticks)
MaxClock == 4         \* clock horizon of SpecRotten (ticks)
MaxLog == 2           \* activity records a run may append
MaxItems == 3         \* line items of one recalculation in SpecValue
MaxCalls == 2         \* requests of SpecConc

\* --------------------------------------------------------------- constants
DayTicks == 2         \* 1000 * 60 * 60 * 24 ms, in ticks
Null == -1            \* null of an optional DateTime / Int column

\* ------------------------------------------------------------ stored data
DealIds == {"d1", "d2"}
NoDeal == "d0"                       \* an id no deal has
StageIds == {"s1", "s2", "s3", "s4", "s5"}
NoStage == "s0"                      \* an id no stage has
NoOwner == "none"                    \* getRottenDeals() without ownerId
NoReason == "undefined"              \* moveDealToStage without reason
Reasons == {NoReason, "price"}

\* the stages of a second pipeline, p2
OtherStageIds == {"t1", "t2", "t3", "t4"}

\* model PipelineStage: pipelineId, name, probability, sortOrder, rottenDays
\* (Int?).  StageIds are the stages of pipeline p1; the names of p2's stages
\* repeat (a second round of review and negotiation): only sortOrder is unique
\* within a pipeline.
Stages ==
  [s \in StageIds \cup OtherStageIds |->
     CASE s = "s1" -> [name |-> "Lead",        probability |-> 10,  rottenDays |-> Null,
                       pipelineId |-> "p1", sortOrder |-> 0]
       [] s = "s2" -> [name |-> "Qualified",   probability |-> 25,  rottenDays |-> 0,
                       pipelineId |-> "p1", sortOrder |-> 1]
       [] s = "s3" -> [name |-> "Proposal",    probability |-> 50,  rottenDays |-> 1,
                       pipelineId |-> "p1", sortOrder |-> 2]
       [] s = "s4" -> [name |-> "Closed Won",  probability |-> 100, rottenDays |-> Null,
                       pipelineId |-> "p1", sortOrder |-> 3]
       [] s = "s5" -> [name |-> "Closed Lost", probability |-> 0,   rottenDays |-> Null,
                       pipelineId |-> "p1", sortOrder |-> 4]
       [] s = "t1" -> [name |-> "Review",      probability |-> 20,  rottenDays |-> Null,
                       pipelineId |-> "p2", sortOrder |-> 0]
       [] s = "t2" -> [name |-> "Negotiation", probability |-> 40,  rottenDays |-> Null,
                       pipelineId |-> "p2", sortOrder |-> 1]
       [] s = "t3" -> [name |-> "Review",      probability |-> 60,  rottenDays |-> Null,
                       pipelineId |-> "p2", sortOrder |-> 2]
       [] s = "t4" -> [name |-> "Negotiation", probability |-> 80,  rottenDays |-> Null,
                       pipelineId |-> "p2", sortOrder |-> 3]]

NullStage ==
  [name |-> "undefined", probability |-> Null, rottenDays |-> Null,
   pipelineId |-> "undefined", sortOrder |-> Null]

\* db.pipelineStage.findUnique({ where: { id } }): the row, or null
FindStage(id) == IF id \in DOMAIN Stages THEN Stages[id] ELSE NullStage

\* the stages the data model calls terminal (won or lost), by name
Terminal(s) == Stages[s].name \in {"Closed Won", "Closed Lost"}

DealOwner == [d \in DealIds |-> IF d = "d1" THEN "u1" ELSE "u2"]
Owners == {"u1", "u2"}

\* model Contact: the columns the lifecycle service reads or writes
ContactIds == {"c1"}
NoContact == "c0"                    \* an id no contact has

\* enum LifecycleStage, enum ContactStatus
LifecycleStages ==
  {"SUBSCRIBER", "LEAD", "MARKETING_QUALIFIED", "SALES_QUALIFIED",
   "OPPORTUNITY", "CUSTOMER", "EVANGELIST"}
ContactStatuses ==
  {"LEAD", "PROSPECT", "QUALIFIED", "CUSTOMER", "INACTIVE", "UNQUALIFIED"}

\* a contact row with the schema's defaults: @default(LEAD) twice
NewContact == [lifecycleStage |-> "LEAD", status |-> "LEAD"]

VARIABLES
  now,          \* the clock new Date() reads
  deals,        \* table deals: id -> row
  products,     \* table deal_products: dealId -> rows, in insertion order
  activities,   \* table activities, in insertion order
  contacts,     \* table contacts: id -> row
  notes,        \* table notes: id -> row
  last,         \* the last uninterrupted call: what was asked, what came back
  calls         \* the calls in flight in SpecConc: position and locals of each

vars == <<now, deals, products, activities, contacts, notes, last, calls>>
data == <<deals, products, activities, contacts, notes>>

Call(op, args, result) == [op |-> op, args |-> args, result |-> result]

\* model Deal, the columns the service reads or writes
NewDeal(d, s) ==
  [stageId |-> s, probability |-> Stages[s].probability,
   stageChangedAt |-> 0, actualCloseDate |-> Null,
   value |-> 10000, ownerId |-> DealOwner[d]]

\* BaseService.findById: the row, or null
Exists(d) == d \in DOMAIN deals

\* Mutants of MovedDeal: the probability left as it was; the close date
\* written for "Closed Won" only; the close date cleared by a move to a
\* non-terminal stage.
MovedDealKeepsProbability(row, stageId, newStage, t) ==
  [row EXCEPT !.stageId = stageId,
              !.stageChangedAt = t,
              !.actualCloseDate =
                 IF newStage.name = "Closed Won" \/ newStage.name = "Closed Lost"
                 THEN t ELSE @]

MovedDealWonOnly(row, stageId, newStage, t) ==
  [row EXCEPT !.stageId = stageId,
              !.probability = newStage.probability,
              !.stageChangedAt = t,
              !.actualCloseDate = IF newStage.name = "Closed Won" THEN t ELSE @]

MovedDealClearsCloseDate(row, stageId, newStage, t) ==
  [row EXCEPT !.stageId = stageId,
              !.probability = newStage.probability,
              !.stageChangedAt = t,
              !.actualCloseDate =
                 IF newStage.name = "Closed Won" \/ newStage.name = "Closed Lost"
                 THEN t ELSE Null]

\* The data of this.update(dealId, {...}) in moveDealToStage: the row after it.
MovedDeal(row, stageId, newStage, t) ==
  [row EXCEPT !.stageId = stageId,
              !.probability = newStage.probability,
              !.stageChangedAt = t,
              !.actualCloseDate =
                 IF newStage.name = "Closed Won" \/ newStage.name = "Closed Lost"
                 THEN t ELSE @]

\* Mutant of StageChangeActivity: the stage read for the log after the update.
StageChangeActivityReadLate(dealId, oldStage, newStage, reason) ==
  [type |-> "DEAL_STAGE_CHANGED", dealId |-> dealId,
   previousStage |-> newStage.name, newStage |-> newStage.name,
   reason |-> reason]

\* The DEAL_STAGE_CHANGED record of activityService.create in moveDealToStage.
StageChangeActivity(dealId, oldStage, newStage, reason) ==
  [type |-> "DEAL_STAGE_CHANGED", dealId |-> dealId,
   previousStage |-> oldStage.name, newStage |-> newStage.name,
   reason |-> reason]

\* Mutant of MoveDealToStage: the target stage looked up after the update.
MoveDealToStageLateCheck(dealId, stageId, reason) ==
  LET args == <<dealId, stageId, reason>> IN
  IF ~Exists(dealId) THEN
     /\ last' = Call("moveDealToStage", args, "NotFound: Deal")
     /\ UNCHANGED <<now, data, calls>>
  ELSE IF FindStage(stageId) = NullStage THEN
     /\ deals' = [deals EXCEPT ![dealId].stageId = stageId,
                               ![dealId].stageChangedAt = now]
     /\ last' = Call("moveDealToStage", args, "NotFound: Pipeline stage")
     /\ UNCHANGED <<now, products, activities, calls, contacts, notes>>
  ELSE
     LET newStage == FindStage(stageId)
         oldStage == FindStage(deals[dealId].stageId)
     IN /\ Len(activities) < MaxLog
        /\ deals' = [deals EXCEPT ![dealId] = MovedDeal(@, stageId, newStage, now)]
        /\ activities' = Append(activities,
                            StageChangeActivity(dealId, oldStage, newStage, reason))
        /\ last' = Call("moveDealToStage", args, "ok")
        /\ UNCHANGED <<now, products, calls, contacts, notes>>

\* DealService.moveDealToStage, run without interruption.
MoveDealToStage(dealId, stageId, reason) ==
  LET args == <<dealId, stageId, reason>> IN
  IF ~Exists(dealId) THEN
     /\ last' = Call("moveDealToStage", args, "NotFound: Deal")
     /\ UNCHANGED <<now, data, calls>>
  ELSE IF FindStage(stageId) = NullStage THEN
     /\ last' = Call("moveDealToStage", args, "NotFound: Pipeline stage")
     /\ UNCHANGED <<now, data, calls>>
  ELSE
     LET newStage == FindStage(stageId)
         oldStage == FindStage(deals[dealId].stageId)
     IN /\ Len(activities) < MaxLog
        /\ deals' = [deals EXCEPT ![dealId] = MovedDeal(@, stageId, newStage, now)]
        /\ activities' = Append(activities,
                            StageChangeActivity(dealId, oldStage, newStage, reason))
        /\ last' = Call("moveDealToStage", args, "ok")
        /\ UNCHANGED <<now, products, calls, contacts, notes>>

\* ------------------------------------------------------ value recalculation
Item(q, p, d) == [quantity |-> q, unitPrice |-> p, discount |-> d]

\* Mutant of CalculateDealValue: the discount left out of the total.
RECURSIVE CalculateDealValueNoDiscount(_)
CalculateDealValueNoDiscount(items) ==
  IF items = <<>> THEN 0
  ELSE LET product == items[Len(items)]
           subtotal == product.quantity * product.unitPrice
       IN CalculateDealValueNoDiscount(SubSeq(items, 1, Len(items) - 1))
             + subtotal * 100

\* DealService.calculateDealValue: the reduce over the products, as an unrounded
\* number (1/100 cent): subtotal = quantity * unitPrice, discount = subtotal *
\* discount / 100, total + (subtotal - discount).
RECURSIVE CalculateDealValue(_)
CalculateDealValue(items) ==
  IF items = <<>> THEN 0
  ELSE LET product == items[Len(items)]
           subtotal == product.quantity * product.unitPrice
           discount == subtotal * product.discount
       IN CalculateDealValue(SubSeq(items, 1, Len(items) - 1))
             + (subtotal * 100 - discount)

\* A number written to a Decimal(12,2) column: rounded to the cent.
RoundCents(x) == (x + 50) \div 100

\* The row createMany inserts for one input product.
ProductRow(dealId, p) ==
  [dealId |-> dealId, quantity |-> p.quantity, unitPrice |-> p.unitPrice,
   totalPrice |-> RoundCents(p.quantity * p.unitPrice * (100 - p.discount)),
   discount |-> p.discount]

\* The DEAL_VALUE_CHANGED record of activityService.create in updateDealValue.
ValueChangeActivity(dealId, row, newValue, items) ==
  [type |-> "DEAL_VALUE_CHANGED", dealId |-> dealId,
   previousValue |-> row.value, newValue |-> newValue, products |-> Len(items)]

\* Mutant of ValueWrites: createMany without the deleteMany before it.
ValueWritesKeepsOldRows(dealId, items) ==
  LET newValue == CalculateDealValue(items) IN
  /\ products' = [products EXCEPT ![dealId] =
                     @ \o [i \in 1..Len(items) |-> ProductRow(dealId, items[i])]]
  /\ deals' = [deals EXCEPT ![dealId].value = RoundCents(newValue)]
  /\ activities' = Append(activities,
                      ValueChangeActivity(dealId, deals[dealId], newValue, items))

\* Mutant of ValueWrites: the deal update stamps stageChangedAt as well.
ValueWritesStampsStageChange(dealId, items) ==
  LET newValue == CalculateDealValue(items) IN
  /\ products' = [products EXCEPT ![dealId] =
                     [i \in 1..Len(items) |-> ProductRow(dealId, items[i])]]
  /\ deals' = [deals EXCEPT ![dealId].value = RoundCents(newValue),
                            ![dealId].stageChangedAt = now]
  /\ activities' = Append(activities,
                      ValueChangeActivity(dealId, deals[dealId], newValue, items))

\* The writes of updateDealValue's transaction, committed together: deleteMany
\* and createMany on deal_products, update of deal.value, the activity.
ValueWrites(dealId, items) ==
  LET newValue == CalculateDealValue(items) IN
  /\ products' = [products EXCEPT ![dealId] =
                     [i \in 1..Len(items) |-> ProductRow(dealId, items[i])]]
  /\ deals' = [deals EXCEPT ![dealId].value = RoundCents(newValue)]
  /\ activities' = Append(activities,
                      ValueChangeActivity(dealId, deals[dealId], newValue, items))

\* DealService.updateDealValue, run without interruption.
UpdateDealValue(dealId, items) ==
  LET args == <<dealId, items>> IN
  IF ~Exists(dealId) THEN
     /\ last' = Call("updateDealValue", args, "NotFound: Deal")
     /\ UNCHANGED <<now, data, calls>>
  ELSE
     /\ Len(activities) < MaxLog
     /\ ValueWrites(dealId, items)
     /\ last' = Call("updateDealValue", args, "ok")
     /\ UNCHANGED <<now, calls, contacts, notes>>

\* ------------------------------------------------------------- rotten deals
\* Math.floor((now - stageChangedAt) / (1000 * 60 * 60 * 24))
DaysSince(t) == (now - t) \div DayTicks

\* JavaScript truthiness of an Int? value: null and 0 are falsy.
Truthy(n) == n # Null /\ n # 0

\* Mutant of RottenCandidates: the where clause without actualCloseDate: null.
RottenCandidatesAnyCloseDate(ownerId) ==
  {d \in DealIds :
     /\ Stages[deals[d].stageId].rottenDays # Null
     /\ (ownerId # NoOwner => deals[d].ownerId = ownerId)}

\* The rows db.deal.findMany returns for getRottenDeals' whereClause.
RottenCandidates(ownerId) ==
  {d \in DealIds :
     /\ deals[d].actualCloseDate = Null
     /\ Stages[deals[d].stageId].rottenDays # Null
     /\ (ownerId # NoOwner => deals[d].ownerId = ownerId)}

\* The filter of getRottenDeals over those rows.
IsRotten(d) ==
  LET stage == Stages[deals[d].stageId] IN
  Truthy(stage.rottenDays) /\ DaysSince(deals[d].stageChangedAt) > stage.rottenDays

\* DealService.getRottenDeals
GetRottenDeals(ownerId) ==
  /\ last' = Call("getRottenDeals", <<ownerId>>,
                  {d \in RottenCandidates(ownerId) : IsRotten(d)})
  /\ UNCHANGED <<now, data, calls>>

\* --------------------------------------------------------------- the clock
\* Time passes between calls.
Tick(limit) ==
  /\ now < limit
  /\ now' = now + 1
  /\ last' = Call("tick", <<>>, "ok")
  /\ UNCHANGED <<data, calls>>

\* ------------------------------------------------------- the specifications
NoCalls == <<>>
NoNotes == <<>>

\* Spec: the calls of one client, one after the other, on deal d1; d2 is a
\* second row of the table that no call names.
InitRow(d) == NewDeal(d, "s1")

Init ==
  /\ now = 0
  /\ deals = [d \in DealIds |-> InitRow(d)]
  /\ products = [d \in DealIds |-> <<>>]
  /\ activities = <<>>
  /\ contacts = [c \in ContactIds |-> NewContact]
  /\ notes = NoNotes
  /\ last = Call("init", <<>>, "ok")
  /\ calls = NoCalls

SmallItemLists == {<<>>, <<Item(1, 5000, 0)>>}

Next ==
  \/ \E d \in {"d1", NoDeal}, s \in StageIds \cup {NoStage}, r \in Reasons :
        MoveDealToStage(d, s, r)
  \/ \E d \in {"d1", NoDeal}, items \in SmallItemLists :
        UpdateDealValue(d, items)
  \/ Tick(MaxTime)

Spec == Init /\ [][Next]_vars

\* ------------------------------------------------------- concurrent calls
\* SpecConc: MaxCalls requests served at once.  A moveDealToStage call runs in
\* three steps with other calls between them: its reads (findById and the two
\* stage lookups; no operation writes the stage table, so the lookups read the
\* same rows wherever they fall), the update, the activity.  Each request slot
\* serves one call and keeps its locals.
Reqs == 1..MaxCalls
IdleCall == [pc |-> "idle"]

\* deal = await this.findById(dealId); newStage, oldStage = await findUnique(..)
MoveFind(r, dealId, stageId, reason) ==
  /\ calls[r].pc = "idle"
  /\ \A q \in Reqs : q < r => calls[q].pc # "idle"
  /\ calls' = [calls EXCEPT ![r] =
       IF ~Exists(dealId) THEN
          [pc |-> "done", op |-> "moveDealToStage", dealId |-> dealId,
           stageId |-> stageId, result |-> "NotFound: Deal"]
       ELSE IF FindStage(stageId) = NullStage THEN
          [pc |-> "done", op |-> "moveDealToStage", dealId |-> dealId,
           stageId |-> stageId, result |-> "NotFound: Pipeline stage"]
       ELSE
          [pc |-> "update", op |-> "moveDealToStage", dealId |-> dealId,
           stageId |-> stageId, reason |-> reason,
           newStage |-> FindStage(stageId),
           oldStage |-> FindStage(deals[dealId].stageId)]]
  /\ UNCHANGED <<now, data, last>>

\* Mutant of MoveUpdate: the update made as two writes, stageId first.
MoveUpdateTwoWrites(r) ==
  LET c == calls[r]
      row == MovedDeal(deals[c.dealId], c.stageId, c.newStage, now)
  IN /\ c.pc = "update"
     /\ IF deals[c.dealId].stageId # c.stageId
        THEN /\ deals' = [deals EXCEPT ![c.dealId].stageId = c.stageId]
             /\ UNCHANGED calls
        ELSE /\ deals' = [deals EXCEPT ![c.dealId] = row]
             /\ calls' = [calls EXCEPT ![r] =
                  [pc |-> "log", op |-> c.op, dealId |-> c.dealId,
                   stageId |-> c.stageId, reason |-> c.reason,
                   newStage |-> c.newStage, oldStage |-> c.oldStage,
                   updated |-> row]]
     /\ UNCHANGED <<now, products, activities, last, contacts, notes>>

\* const updated = await this.update(dealId, {...}): lines 255-261
MoveUpdate(r) ==
  LET c == calls[r]
      row == MovedDeal(deals[c.dealId], c.stageId, c.newStage, now)
  IN /\ c.pc = "update"
     /\ deals' = [deals EXCEPT ![c.dealId] = row]
     /\ calls' = [calls EXCEPT ![r] =
          [pc |-> "log", op |-> c.op, dealId |-> c.dealId, stageId |-> c.stageId,
           reason |-> c.reason, newStage |-> c.newStage, oldStage |-> c.oldStage,
           updated |-> row]]
     /\ UNCHANGED <<now, products, activities, last, contacts, notes>>

\* await this.activityService.create({...}); return updated: lines 264-276
MoveLog(r) ==
  LET c == calls[r] IN
  /\ c.pc = "log"
  /\ activities' = Append(activities,
        StageChangeActivity(c.dealId, c.oldStage, c.newStage, c.reason))
  /\ calls' = [calls EXCEPT ![r] =
       [pc |-> "done", op |-> c.op, dealId |-> c.dealId, stageId |-> c.stageId,
        updated |-> c.updated, result |-> "ok"]]
  /\ UNCHANGED <<now, deals, products, last, contacts, notes>>

\* updateDealValue as one request: findById, then the transaction.
ValueCall(r, dealId, items) ==
  /\ calls[r].pc = "idle"
  /\ \A q \in Reqs : q < r => calls[q].pc # "idle"
  /\ Exists(dealId)
  /\ ValueWrites(dealId, items)
  /\ calls' = [calls EXCEPT ![r] =
       [pc |-> "done", op |-> "updateDealValue", dealId |-> dealId,
        result |-> "ok"]]
  /\ UNCHANGED <<now, last, contacts, notes>>

InitConc ==
  /\ now = 0
  /\ deals = [d \in DealIds |-> InitRow(d)]
  /\ products = [d \in DealIds |-> <<>>]
  /\ activities = <<>>
  /\ contacts = [c \in ContactIds |-> NewContact]
  /\ notes = NoNotes
  /\ last = Call("init", <<>>, "ok")
  /\ calls = [r \in Reqs |-> IdleCall]

NextConc ==
  \/ \E r \in Reqs, d \in {"d1", NoDeal}, s \in StageIds \cup {NoStage} :
        MoveFind(r, d, s, NoReason)
  \/ \E r \in Reqs : MoveUpdate(r)
  \/ \E r \in Reqs : MoveLog(r)
  \/ \E r \in Reqs, items \in SmallItemLists : ValueCall(r, "d1", items)
  \/ Tick(MaxTime)

SpecConc == InitConc /\ [][NextConc]_vars

\* ------------------------------------------- the transaction of updateDealValue
\* SpecTx: updateDealValue statement by statement, MaxCalls requests at once.
\* The callback of db.$transaction runs deleteMany, createMany and deal.update
\* on the transaction client tx: their writes are pending in the call until
\* the callback returns and the transaction commits, and they are dropped when
\* a statement throws.  activityService.create runs on the service's own
\* client, outside tx: its record is stored at once.  Any statement, and the
\* commit, may throw.
IdleTx == [pc |-> "idle"]

\* A call between its statements: position, arguments, the row findById
\* returned, and the pending writes of tx.
TxCall(pc, c, deleted, inserted, value) ==
  [pc |-> pc, op |-> "updateDealValue", dealId |-> c.dealId, items |-> c.items,
   deal |-> c.deal, deleted |-> deleted, inserted |-> inserted, value |-> value]

TxDone(c, result) ==
  [pc |-> "done", op |-> "updateDealValue", dealId |-> c.dealId,
   items |-> c.items, result |-> result]

\* deal = await this.findById(dealId); newValue = this.calculateDealValue(..)
ValueFind(r, dealId, items) ==
  /\ calls[r].pc = "idle"
  /\ \A q \in Reqs : q < r => calls[q].pc # "idle"
  /\ calls' = [calls EXCEPT ![r] =
       IF ~Exists(dealId)
       THEN TxDone([dealId |-> dealId, items |-> items], "NotFound: Deal")
       ELSE TxCall("deleteMany",
                   [dealId |-> dealId, items |-> items, deal |-> deals[dealId]],
                   {}, <<>>, Null)]
  /\ UNCHANGED <<now, data, last>>

\* Mutant of TxDeleteMany: the delete made on the service's client, stored at
\* once.
TxDeleteManyOutsideTx(r) ==
  LET c == calls[r] IN
  /\ c.pc = "deleteMany"
  /\ products' = [products EXCEPT ![c.dealId] = <<>>]
  /\ calls' = [calls EXCEPT ![r] = TxCall("createMany", c, {}, <<>>, Null)]
  /\ UNCHANGED <<now, deals, activities, last, contacts, notes>>

\* await tx.dealProduct.deleteMany({ where: { dealId } }): the stored rows of
\* the deal are marked deleted in tx.
TxDeleteMany(r) ==
  LET c == calls[r]
      seen == {products[c.dealId][i] : i \in 1..Len(products[c.dealId])}
  IN /\ c.pc = "deleteMany"
     /\ calls' = [calls EXCEPT ![r] = TxCall("createMany", c, seen, <<>>, Null)]
     /\ UNCHANGED <<now, data, last>>

\* await tx.dealProduct.createMany({ data: products.map(..) })
TxCreateMany(r) ==
  LET c == calls[r]
      rows == [i \in 1..Len(c.items) |-> ProductRow(c.dealId, c.items[i])]
  IN /\ c.pc = "createMany"
     /\ calls' = [calls EXCEPT ![r] = TxCall("update", c, c.deleted, rows, Null)]
     /\ UNCHANGED <<now, data, last>>

\* const updated = await tx.deal.update({ data: { value: newValue } })
TxDealUpdate(r) ==
  LET c == calls[r] IN
  /\ c.pc = "update"
  /\ calls' = [calls EXCEPT ![r] =
       TxCall("log", c, c.deleted, c.inserted,
              RoundCents(CalculateDealValue(c.items)))]
  /\ UNCHANGED <<now, data, last>>

\* await this.activityService.create({ type: 'DEAL_VALUE_CHANGED', .. })
TxActivityCreate(r) ==
  LET c == calls[r] IN
  /\ c.pc = "log"
  /\ Len(activities) < MaxLog
  /\ activities' = Append(activities,
        ValueChangeActivity(c.dealId, c.deal, CalculateDealValue(c.items), c.items))
  /\ calls' = [calls EXCEPT ![r] =
       TxCall("commit", c, c.deleted, c.inserted, c.value)]
  /\ UNCHANGED <<now, deals, products, last, contacts, notes>>

\* return updated: the callback resolves and the transaction commits: the
\* rows marked deleted go, the created rows and the value are stored.
TxCommit(r) ==
  LET c == calls[r] IN
  /\ c.pc = "commit"
  /\ products' = [products EXCEPT ![c.dealId] =
        SelectSeq(@, LAMBDA row : row \notin c.deleted) \o c.inserted]
  /\ deals' = [deals EXCEPT ![c.dealId].value = c.value]
  /\ calls' = [calls EXCEPT ![r] = TxDone(c, "ok")]
  /\ UNCHANGED <<now, activities, last, contacts, notes>>

\* The statement the call is at (or the commit) throws: the transaction is
\* rolled back and the call rejects.
TxThrow(r) ==
  LET c == calls[r] IN
  /\ c.pc \in {"deleteMany", "createMany", "update", "log", "commit"}
  /\ calls' = [calls EXCEPT ![r] = TxDone(c, "error")]
  /\ UNCHANGED <<now, data, last>>

InitTx ==
  /\ now = 0
  /\ deals = [d \in DealIds |-> InitRow(d)]
  /\ products = [d \in DealIds |-> <<>>]
  /\ activities = <<>>
  /\ contacts = [c \in ContactIds |-> NewContact]
  /\ notes = NoNotes
  /\ last = Call("init", <<>>, "ok")
  /\ calls = [r \in Reqs |-> IdleTx]

NextTx ==
  \/ \E r \in Reqs, d \in {"d1", NoDeal}, items \in SmallItemLists :
        ValueFind(r, d, items)
  \/ \E r \in Reqs : TxDeleteMany(r)
  \/ \E r \in Reqs : TxCreateMany(r)
  \/ \E r \in Reqs : TxDealUpdate(r)
  \/ \E r \in Reqs : TxActivityCreate(r)
  \/ \E r \in Reqs : TxCommit(r)
  \/ \E r \in Reqs : TxThrow(r)

SpecTx == InitTx /\ [][NextTx]_vars

\* ------------------------------------------------------- contact lifecycle
\* progressionMap of isValidProgression
ProgressionMap ==
  [s \in LifecycleStages |->
     CASE s = "SUBSCRIBER"          -> {"LEAD"}
       [] s = "LEAD"                -> {"MARKETING_QUALIFIED", "SALES_QUALIFIED"}
       [] s = "MARKETING_QUALIFIED" -> {"SALES_QUALIFIED", "LEAD"}
       [] s = "SALES_QUALIFIED"     -> {"OPPORTUNITY", "MARKETING_QUALIFIED"}
       [] s = "OPPORTUNITY"         -> {"CUSTOMER", "SALES_QUALIFIED"}
       [] s = "CUSTOMER"            -> {"EVANGELIST"}
       [] s = "EVANGELIST"          -> {}]

\* Mutant of IsValidProgression: staying in the current stage allowed.
IsValidProgressionOrSame(current, next) ==
  current = next \/ (current \in DOMAIN ProgressionMap /\ next \in ProgressionMap[current])

\* progressionMap[current]?.includes(next) || false
IsValidProgression(current, next) ==
  current \in DOMAIN ProgressionMap /\ next \in ProgressionMap[current]

\* Mutant of MapLifecycleToStatus: OPPORTUNITY mapped to PROSPECT.
MapLifecycleToStatusOpportunityProspect(stage) ==
  CASE stage \in {"SUBSCRIBER", "LEAD"} -> "LEAD"
    [] stage \in {"MARKETING_QUALIFIED", "OPPORTUNITY"} -> "PROSPECT"
    [] stage = "SALES_QUALIFIED" -> "QUALIFIED"
    [] stage \in {"CUSTOMER", "EVANGELIST"} -> "CUSTOMER"

\* ContactLifecycleService.mapLifecycleToStatus
MapLifecycleToStatus(stage) ==
  CASE stage = "SUBSCRIBER"          -> "LEAD"
    [] stage = "LEAD"                -> "LEAD"
    [] stage = "MARKETING_QUALIFIED" -> "PROSPECT"
    [] stage = "SALES_QUALIFIED"     -> "QUALIFIED"
    [] stage = "OPPORTUNITY"         -> "QUALIFIED"
    [] stage = "CUSTOMER"            -> "CUSTOMER"
    [] stage = "EVANGELIST"          -> "CUSTOMER"

\* contactService.findById: the row, or null
ContactExists(c) == c \in ContactIds

\* The data of contactService.update in progressLifecycleStage: the row after it.
ProgressedContact(row, newStage) ==
  [row EXCEPT !.lifecycleStage = newStage,
              !.status = MapLifecycleToStatus(newStage)]

\* The LIFECYCLE_CHANGE record of activityService.create.
LifecycleChangeActivity(contactId, currentStage, newStage, reason) ==
  [type |-> "LIFECYCLE_CHANGE", contactId |-> contactId,
   previousStage |-> currentStage, newStage |-> newStage, reason |-> reason]

\* ContactLifecycleService.progressLifecycleStage, run without interruption.
ProgressLifecycleStage(contactId, newStage, reason) ==
  LET args == <<contactId, newStage, reason>> IN
  IF ~ContactExists(contactId) THEN
     /\ last' = Call("progressLifecycleStage", args, "NotFound: Contact")
     /\ UNCHANGED <<now, data, calls>>
  ELSE IF ~IsValidProgression(contacts[contactId].lifecycleStage, newStage) THEN
     /\ last' = Call("progressLifecycleStage", args, "INVALID_PROGRESSION")
     /\ UNCHANGED <<now, data, calls>>
  ELSE
     LET currentStage == contacts[contactId].lifecycleStage
     IN /\ Len(activities) < MaxLog
        /\ contacts' = [contacts EXCEPT ![contactId] = ProgressedContact(@, newStage)]
        /\ activities' = Append(activities,
              LifecycleChangeActivity(contactId, currentStage, newStage, reason))
        /\ last' = Call("progressLifecycleStage", args, "ok")
        /\ UNCHANGED <<now, deals, products, calls, notes>>

\* SpecLife: progressLifecycleStage called by one client, on a contact stored
\* in any lifecycle stage and with any status (createContact and update write
\* the two columns independently of each other).
InitLife ==
  /\ now = 0
  /\ deals = [d \in DealIds |-> InitRow(d)]
  /\ products = [d \in DealIds |-> <<>>]
  /\ activities = <<>>
  /\ contacts \in [ContactIds ->
                     [lifecycleStage : LifecycleStages, status : ContactStatuses]]
  /\ notes = NoNotes
  /\ last = Call("init", <<>>, "ok")
  /\ calls = NoCalls

NextLife ==
  \E c \in ContactIds \cup {NoContact}, s \in LifecycleStages, r \in Reasons :
     ProgressLifecycleStage(c, s, r)

SpecLife == InitLife /\ [][NextLife]_vars

\* SpecLifeConc: MaxCalls progressLifecycleStage requests served at once.  A
\* call runs in three steps with other calls between them: findById and the
\* check of the stage it read, the update, the activity.  The contact was
\* stored by createContact: any lifecycle stage, the status column's default.
ProgressCall(pc, c) ==
  [pc |-> pc, op |-> "progressLifecycleStage", contactId |-> c.contactId,
   newStage |-> c.newStage, currentStage |-> c.currentStage]

ProgressDone(contactId, newStage, result) ==
  [pc |-> "done", op |-> "progressLifecycleStage", contactId |-> contactId,
   newStage |-> newStage, result |-> result]

\* contact = await findById(contactId); currentStage = contact.lifecycleStage;
\* if (!this.isValidProgression(currentStage, newStage)) throw ..
ProgressFind(r, contactId, newStage) ==
  /\ calls[r].pc = "idle"
  /\ \A q \in Reqs : q < r => calls[q].pc # "idle"
  /\ calls' = [calls EXCEPT ![r] =
       IF ~ContactExists(contactId)
       THEN ProgressDone(contactId, newStage, "NotFound: Contact")
       ELSE IF ~IsValidProgression(contacts[contactId].lifecycleStage, newStage)
       THEN ProgressDone(contactId, newStage, "INVALID_PROGRESSION")
       ELSE ProgressCall("update",
               [contactId |-> contactId, newStage |-> newStage,
                currentStage |-> contacts[contactId].lifecycleStage])]
  /\ UNCHANGED <<now, data, last>>

\* const updated = await this.contactService.update(contactId, {...})
ProgressUpdate(r) ==
  LET c == calls[r] IN
  /\ c.pc = "update"
  /\ contacts' = [contacts EXCEPT ![c.contactId] = ProgressedContact(@, c.newStage)]
  /\ calls' = [calls EXCEPT ![r] = ProgressCall("log", c)]
  /\ UNCHANGED <<now, deals, products, activities, last, notes>>

\* await this.activityService.create({ type: 'LIFECYCLE_CHANGE', .. })
ProgressLog(r) ==
  LET c == calls[r] IN
  /\ c.pc = "log"
  /\ Len(activities) < MaxLog
  /\ activities' = Append(activities,
        LifecycleChangeActivity(c.contactId, c.currentStage, c.newStage, NoReason))
  /\ calls' = [calls EXCEPT ![r] = ProgressDone(c.contactId, c.newStage, "ok")]
  /\ UNCHANGED <<now, deals, products, contacts, last, notes>>

InitLifeConc ==
  /\ now = 0
  /\ deals = [d \in DealIds |-> InitRow(d)]
  /\ products = [d \in DealIds |-> <<>>]
  /\ activities = <<>>
  /\ contacts \in [ContactIds ->
                     [lifecycleStage : LifecycleStages, status : {NewContact.status}]]
  /\ notes = NoNotes
  /\ last = Call("init", <<>>, "ok")
  /\ calls = [r \in Reqs |-> IdleCall]

NextLifeConc ==
  \/ \E r \in Reqs, c \in ContactIds \cup {NoContact}, s \in LifecycleStages :
        ProgressFind(r, c, s)
  \/ \E r \in Reqs : ProgressUpdate(r)
  \/ \E r \in Reqs : ProgressLog(r)

SpecLifeConc == InitLifeConc /\ [][NextLifeConc]_vars

\* -------------------------------------------------------------- forecasting
\* enum ForecastPeriod
ForecastPeriods == {"THIS_MONTH", "NEXT_MONTH", "THIS_QUARTER", "NEXT_QUARTER"}

Pipelines == {"p1", "p2"}
NoPipeline == "any"                  \* generateForecast without pipelineId

\* model User: name String?, "" for a user without one
UserName == [u \in Owners |-> IF u = "u1" THEN "Ann" ELSE ""]

\* The calendar of getPeriodDates: months of 30 days, quarters of 3 months,
\* counted from time 0.
MonthTicks == 30 * DayTicks
QuarterTicks == 3 * MonthTicks

\* getPeriodDates(period): the window [startDate, endDate) of the calendar
\* month or quarter that holds now, or of the one after it.
GetPeriodDates(period) ==
  LET month == (now \div MonthTicks) * MonthTicks
      quarter == (now \div QuarterTicks) * QuarterTicks
  IN CASE period = "THIS_MONTH" ->
            [startDate |-> month, endDate |-> month + MonthTicks]
       [] period = "NEXT_MONTH" ->
            [startDate |-> month + MonthTicks, endDate |-> month + 2 * MonthTicks]
       [] period = "THIS_QUARTER" ->
            [startDate |-> quarter, endDate |-> quarter + QuarterTicks]
       [] period = "NEXT_QUARTER" ->
            [startDate |-> quarter + QuarterTicks,
             endDate |-> quarter + 2 * QuarterTicks]

\* The rows db.deal.findMany returns for generateForecast's where clause:
\* expectedCloseDate gte startDate and lte endDate, actualCloseDate null,
\* ownerId and pipelineId when the options give them.
ForecastDeals(period, ownerId, pipelineId) ==
  LET w == GetPeriodDates(period) IN
  {d \in DealIds :
     /\ deals[d].expectedCloseDate >= w.startDate
     /\ deals[d].expectedCloseDate <= w.endDate
     /\ deals[d].actualCloseDate = Null
     /\ (ownerId # NoOwner => deals[d].ownerId = ownerId)
     /\ (pipelineId # NoPipeline => deals[d].pipelineId = pipelineId)}

\* reduce((sum, d) => sum + f(d), 0) over the rows ds
RECURSIVE Sum(_, _)
Sum(f, ds) ==
  IF ds = {} THEN 0
  ELSE LET d == CHOOSE x \in ds : TRUE IN f[d] + Sum(f, ds \ {d})

\* const value = Number(deal.value), in cents
DealValue == [d \in DealIds |-> deals[d].value]

\* Mutant of WeightedValue: the probability left out.
WeightedValueUnweighted == [d \in DealIds |-> deals[d].value * 100]

\* const weightedValue = value * (deal.probability / 100), in 1/100 cent
WeightedValue == [d \in DealIds |-> deals[d].value * deals[d].probability]

DealProbability == [d \in DealIds |-> deals[d].probability]

\* A quotient a / b, kept as the pair it is computed from.
Quotient(a, b) == [num |-> a, den |-> b]

\* const stageName = deal.stage.name
StageName(d) == Stages[deals[d].stageId].name

\* const ownerName = deal.owner.name || 'Unassigned'
OwnerName(d) ==
  IF UserName[deals[d].ownerId] = "" THEN "Unassigned"
  ELSE UserName[deals[d].ownerId]

\* Mutant of StageMetrics: the probabilities averaged over all selected deals.
StageMetricsOverAllDeals(ds, stageName) ==
  LET stageDeals == {d \in ds : StageName(d) = stageName} IN
  [count |-> Cardinality(stageDeals),
   totalValue |-> Sum(DealValue, stageDeals),
   weightedValue |-> Sum(WeightedValue, stageDeals),
   averageProbability |->
      Quotient(Sum(DealProbability, stageDeals), Cardinality(ds))]

\* forecast.byStage[stageName] after the loops over the selected deals ds
StageMetrics(ds, stageName) ==
  LET stageDeals == {d \in ds : StageName(d) = stageName} IN
  [count |-> Cardinality(stageDeals),
   totalValue |-> Sum(DealValue, stageDeals),
   weightedValue |-> Sum(WeightedValue, stageDeals),
   averageProbability |->
      Quotient(Sum(DealProbability, stageDeals), Cardinality(stageDeals))]

\* forecast.byOwner[ownerName] after the loop
OwnerMetrics(ds, ownerName) ==
  LET ownerDeals == {d \in ds : OwnerName(d) = ownerName} IN
  [count |-> Cardinality(ownerDeals),
   totalValue |-> Sum(DealValue, ownerDeals),
   weightedValue |-> Sum(WeightedValue, ownerDeals)]

\* Math.min(a, b)
Min(a, b) == IF a < b THEN a ELSE b

\* Mutant of DealConfidence: the boosted confidence not capped at 100.
DealConfidenceUncapped(d) ==
  LET days == DaysSince(deals[d].updatedAt)
      c0 == deals[d].probability * 1000
      c1 == IF days > 7 THEN (c0 * 8) \div 10 ELSE c0
      c2 == IF days > 14 THEN (c1 * 7) \div 10 ELSE c1
      c3 == IF days > 30 THEN (c2 * 5) \div 10 ELSE c2
      c4 == IF days <= 2 THEN (c3 * 11) \div 10 ELSE c3
  IN c4

\* One deal's term of confidenceScore, in 1/1000: the probability, times 0.8,
\* 0.7 and 0.5 for more than 7, 14 and 30 days since updatedAt, each applied
\* to the result of the one before, times 1.1 for at most 2 days, capped at
\* 100.  (Every product here is a whole number of thousandths.)
DealConfidence(d) ==
  LET days == DaysSince(deals[d].updatedAt)
      c0 == deals[d].probability * 1000
      c1 == IF days > 7 THEN (c0 * 8) \div 10 ELSE c0
      c2 == IF days > 14 THEN (c1 * 7) \div 10 ELSE c1
      c3 == IF days > 30 THEN (c2 * 5) \div 10 ELSE c2
      c4 == IF days <= 2 THEN (c3 * 11) \div 10 ELSE c3
  IN Min(c4, 100 * 1000)

\* ForecastingService.calculateConfidence: Math.round of the mean
CalculateConfidence(ds) ==
  IF Cardinality(ds) = 0 THEN 0
  ELSE LET confidenceScore == Sum([d \in DealIds |-> DealConfidence(d)], ds)
           n == Cardinality(ds)
       IN (2 * confidenceScore + 1000 * n) \div (2000 * n)

\* ForecastingService.generateForecast
GenerateForecast(period, ownerId, pipelineId) ==
  LET ds == ForecastDeals(period, ownerId, pipelineId)
      forecast ==
        [period |-> period,
         totalValue |-> Sum(DealValue, ds),
         weightedValue |-> Sum(WeightedValue, ds),
         dealCount |-> Cardinality(ds),
         byStage |-> [n \in {StageName(d) : d \in ds} |-> StageMetrics(ds, n)],
         byOwner |-> [n \in {OwnerName(d) : d \in ds} |-> OwnerMetrics(ds, n)],
         confidence |-> CalculateConfidence(ds)]
  IN /\ last' = Call("generateForecast", <<period, ownerId, pipelineId>>, forecast)
     /\ UNCHANGED <<now, data, calls>>

\* A deal row with the columns the forecast reads.
ForecastRow(s, v, e, closed, o, p, u) ==
  [stageId |-> s, probability |-> Stages[s].probability,
   stageChangedAt |-> 0, actualCloseDate |-> IF closed THEN 0 ELSE Null,
   value |-> v, ownerId |-> o,
   expectedCloseDate |-> e, pipelineId |-> p, updatedAt |-> u]

\* The time of the forecast specifications: day 35, in the second month of
\* the first quarter.
ForecastNow == MonthTicks + 5 * DayTicks

\* SpecForecast: generateForecast asked of a deals table drawn from: two
\* stages, two values (100.00 and 3.33), expected close dates on and around
\* the bounds of the four windows, open or closed; d1 is u1's deal of 100.00
\* in pipeline p1, d2 is either owner's in either pipeline.
ForecastDates == {MonthTicks - 1, MonthTicks, 2 * MonthTicks, QuarterTicks}

InitForecast ==
  /\ now = ForecastNow
  /\ deals \in [DealIds ->
        {ForecastRow(s, v, e, c, o, p, 0) :
           s \in {"s2", "s3"}, v \in {10000, 333}, e \in ForecastDates,
           c \in BOOLEAN, o \in Owners, p \in Pipelines}]
  /\ deals["d1"].ownerId = "u1" /\ deals["d1"].pipelineId = "p1"
  /\ deals["d1"].value = 10000
  /\ products = [d \in DealIds |-> <<>>]
  /\ activities = <<>>
  /\ contacts = [c \in ContactIds |-> NewContact]
  /\ notes = NoNotes
  /\ last = Call("init", <<>>, "ok")
  /\ calls = NoCalls

NextForecast ==
  \E period \in ForecastPeriods, o \in {NoOwner, "u1"}, p \in {NoPipeline, "p1"} :
     GenerateForecast(period, o, p)

SpecForecast == InitForecast /\ [][NextForecast]_vars

\* SpecConfidence: generateForecast asked for the confidence of deals drawn
\* from every stage probability and from ages on both sides of each threshold
\* of calculateConfidence (0, 2.5, 3, 7.5, 8, 14.5, 15, 30.5 and 31 days since
\* updatedAt), each deal open or closed, all due in the current month.
StaleTicks == {0, 5, 6, 15, 16, 29, 30, 61, 62}

InitConfidence ==
  /\ now = ForecastNow
  /\ deals \in [DealIds ->
        {ForecastRow(s, 10000, MonthTicks, c, "u1", "p1", ForecastNow - a) :
           s \in StageIds, c \in BOOLEAN, a \in StaleTicks}]
  /\ products = [d \in DealIds |-> <<>>]
  /\ activities = <<>>
  /\ contacts = [c \in ContactIds |-> NewContact]
  /\ notes = NoNotes
  /\ last = Call("init", <<>>, "ok")
  /\ calls = NoCalls

NextConfidence ==
  \E o \in {NoOwner, "u1"} : GenerateForecast("THIS_MONTH", o, NoPipeline)

SpecConfidence == InitConfidence /\ [][NextConfidence]_vars

\* --------------------------------------------------------- conversion rates
\* db.pipelineStage.findMany({ where: { pipelineId }, orderBy: sortOrder asc })
RECURSIVE SortedStages(_)
SortedStages(ids) ==
  IF ids = {} THEN <<>>
  ELSE LET s == CHOOSE x \in ids :
                   \A y \in ids : Stages[x].sortOrder <= Stages[y].sortOrder
       IN <<s>> \o SortedStages(ids \ {s})

PipelineStages(pipelineId) ==
  SortedStages({s \in DOMAIN Stages : Stages[s].pipelineId = pipelineId})

\* startDate.setFullYear(endDate.getFullYear() - 1): a year of 365 days
YearTicks == 365 * DayTicks

\* The rows db.deal.findMany returns for getConversionRates' where clause:
\* the pipeline's deals with actualCloseDate gte a year ago and lte now.
ClosedDeals(pipelineId) ==
  {d \in DOMAIN deals :
     /\ deals[d].pipelineId = pipelineId
     /\ deals[d].actualCloseDate # Null
     /\ deals[d].actualCloseDate >= now - YearTicks
     /\ deals[d].actualCloseDate <= now}

\* dealPassedThroughStage(d, stageId): the deal's current stage is the stage
\* or a later one of its pipeline, by sortOrder.
DealPassedThroughStage(d, stageId) ==
  /\ Stages[deals[d].stageId].pipelineId = Stages[stageId].pipelineId
  /\ Stages[deals[d].stageId].sortOrder >= Stages[stageId].sortOrder

\* The key `${currentStage.name}_to_${nextStage.name}`, as the pair of names.
ConversionKey(currentStage, nextStage) ==
  <<Stages[currentStage].name, Stages[nextStage].name>>

\* The entry the loop body stores for stages[i], stages[i + 1]: rate is
\* (nextStageDeals.length / currentStageDeals.length) * 100, or 0.
ConversionEntry(ds, currentStage, nextStage) ==
  LET currentStageDeals == {d \in ds : DealPassedThroughStage(d, currentStage)}
      nextStageDeals == {d \in ds : DealPassedThroughStage(d, nextStage)}
  IN [from |-> Stages[currentStage].name, to |-> Stages[nextStage].name,
      rate |-> IF Cardinality(currentStageDeals) > 0
               THEN Quotient(100 * Cardinality(nextStageDeals),
                             Cardinality(currentStageDeals))
               ELSE Quotient(0, 1),
      deals |-> Cardinality(currentStageDeals)]

\* conversionRates after the for loop: for each key, the entry of the last
\* index i that wrote it.
ConversionRates(ds, stages) ==
  LET pairs == 1..(Len(stages) - 1)
      keyOf(i) == ConversionKey(stages[i], stages[i + 1])
  IN [k \in {keyOf(i) : i \in pairs} |->
        LET i == CHOOSE j \in pairs :
                   /\ keyOf(j) = k
                   /\ \A h \in pairs : keyOf(h) = k => h <= j
        IN ConversionEntry(ds, stages[i], stages[i + 1])]

\* ForecastingService.getConversionRates
GetConversionRates(pipelineId) ==
  /\ last' = Call("getConversionRates", <<pipelineId>>,
                  ConversionRates(ClosedDeals(pipelineId), PipelineStages(pipelineId)))
  /\ UNCHANGED <<now, data, calls>>

\* SpecConversion: getConversionRates asked, a year and five days after time
\* 0, of deals drawn from both pipelines, every stage of the deal's pipeline,
\* and close dates unset, more than a year ago, exactly a year ago, and now.
ConversionNow == YearTicks + 5 * DayTicks

InitConversion ==
  /\ now = ConversionNow
  /\ deals \in [DealIds ->
        {[ForecastRow(s, 10000, 0, FALSE, "u1", Stages[s].pipelineId, 0)
            EXCEPT !.actualCloseDate = c] :
           s \in DOMAIN Stages,
           c \in {Null, 0, ConversionNow - YearTicks, ConversionNow}}]
  /\ products = [d \in DealIds |-> <<>>]
  /\ activities = <<>>
  /\ contacts = [c \in ContactIds |-> NewContact]
  /\ notes = NoNotes
  /\ last = Call("init", <<>>, "ok")
  /\ calls = NoCalls

NextConversion ==
  \E p \in Pipelines : GetConversionRates(p)

SpecConversion == InitConversion /\ [][NextConversion]_vars

\* ------------------------------------------------------------ next actions
\* this.daysSince(contact.lastContactedAt): whole days from t to now
DaysSinceContact(t) == (now - t) \div DayTicks

\* contact.deals?.length for the row contactService.findById returns: findById
\* is findUnique({ where: { id } }) without include, so the row carries no
\* deals relation and the length is undefined.
ContactDealsLength(contactId) == Null

NextAction(type, priority) == [type |-> type, priority |-> priority]

\* The switch of calculateNextActions on the row findById returned.
NextActions(contactId) ==
  LET contact == contacts[contactId]
      daysSinceLastContact == DaysSinceContact(contact.lastContactedAt)
  IN CASE contact.lifecycleStage = "LEAD" ->
            IF daysSinceLastContact > 3
            THEN <<NextAction("FOLLOW_UP_CALL", "HIGH")>> ELSE <<>>
       [] contact.lifecycleStage = "MARKETING_QUALIFIED" ->
            <<NextAction("SALES_HANDOFF", "HIGH")>>
       [] contact.lifecycleStage = "SALES_QUALIFIED" ->
            IF ~Truthy(ContactDealsLength(contactId))
            THEN <<NextAction("CREATE_OPPORTUNITY", "MEDIUM")>> ELSE <<>>
       [] contact.lifecycleStage = "CUSTOMER" ->
            IF daysSinceLastContact > 30
            THEN <<NextAction("CHECK_IN", "LOW")>> ELSE <<>>
       [] OTHER -> <<>>

\* ContactLifecycleService.calculateNextActions
CalculateNextActions(contactId) ==
  /\ last' = Call("calculateNextActions", <<contactId>>,
                  IF ~ContactExists(contactId) THEN <<>> ELSE NextActions(contactId))
  /\ UNCHANGED <<now, data, calls>>

\* SpecActions: calculateNextActions asked about a contact in any lifecycle
\* stage, last contacted 0, 3, 3.5, 4, 30, 30.5 or 31 days ago, with none, one
\* or two of the deals associated to it (Deal.contactId).
ContactAges == {0, 6, 7, 8, 60, 61, 62}

DealOfContact(d, c) ==
  [stageId |-> "s1", probability |-> Stages["s1"].probability,
   stageChangedAt |-> 0, actualCloseDate |-> Null, value |-> 10000,
   ownerId |-> DealOwner[d], contactId |-> c]

InitActions ==
  /\ now = ForecastNow
  /\ deals \in [DealIds -> {DealOfContact(d, c) :
                    d \in DealIds, c \in ContactIds \cup {NoContact}}]
  /\ \A d \in DealIds : deals[d].ownerId = DealOwner[d]
  /\ products = [d \in DealIds |-> <<>>]
  /\ activities = <<>>
  /\ contacts \in [ContactIds ->
        [lifecycleStage : LifecycleStages, status : {NewContact.status},
         lastContactedAt : {ForecastNow - a : a \in ContactAges}]]
  /\ notes = NoNotes
  /\ last = Call("init", <<>>, "ok")
  /\ calls = NoCalls

NextOfActions == \E c \in ContactIds \cup {NoContact} : CalculateNextActions(c)

SpecActions == InitActions /\ [][NextOfActions]_vars

\* ------------------------------------------------------------ deal creation
\* A field of DealCreateInput the caller left out
NotGiven == "undefined"

\* data.probability of a caller that names the stage itself
GivenProbability == 30

\* The id the database gives the new row (@default(cuid())): one no row has
NewDealId == CHOOSE d \in DealIds : d \notin DOMAIN deals

\* Mutant of FirstStage: the pipeline's stage with the largest sortOrder.
FirstStageLast(pipelineId) ==
  LET stages == PipelineStages(pipelineId)
  IN IF stages = <<>> THEN NullStage ELSE Stages[stages[Len(stages)]]

\* db.pipelineStage.findFirst({ where: { pipelineId }, orderBy: sortOrder asc })
FirstStage(pipelineId) ==
  LET stages == PipelineStages(pipelineId)
  IN IF stages = <<>> THEN NullStage ELSE Stages[stages[1]]

\* The id of a stage record
StageIdOf(stage) == CHOOSE s \in DOMAIN Stages : Stages[s] = stage

\* The row this.create({...data, stageChangedAt: new Date()}) inserts
CreatedDeal(pipelineId, stageId, probability, value, ownerId, t) ==
  [stageId |-> stageId, probability |-> probability,
   stageChangedAt |-> t, actualCloseDate |-> Null,
   value |-> value, ownerId |-> ownerId, pipelineId |-> pipelineId]

\* The DEAL_CREATED record of activityService.create in createDeal
DealCreatedActivity(dealId) == [type |-> "DEAL_CREATED", dealId |-> dealId]

\* DealService.createDeal, run without interruption.  A stage id that no
\* stage has fails the insert (the row's stage relation); nothing is written.
CreateDeal(pipelineId, stageId, items, ownerId) ==
  LET args == <<pipelineId, stageId, items, ownerId>>
      auto == stageId = NotGiven /\ FirstStage(pipelineId) # NullStage
      theStage == IF auto THEN StageIdOf(FirstStage(pipelineId)) ELSE stageId
      probability == IF auto THEN FirstStage(pipelineId).probability
                     ELSE GivenProbability
      value == IF Len(items) > 0 THEN RoundCents(CalculateDealValue(items))
               ELSE 10000
  IN /\ DealIds \ DOMAIN deals # {}
     /\ IF theStage \notin DOMAIN Stages THEN
           /\ last' = Call("createDeal", args, "error")
           /\ UNCHANGED <<now, data, calls>>
        ELSE
           /\ Len(activities) < MaxLog
           /\ deals' = [d \in DOMAIN deals \cup {NewDealId} |->
                          IF d = NewDealId
                          THEN CreatedDeal(pipelineId, theStage, probability,
                                           value, ownerId, now)
                          ELSE deals[d]]
           /\ products' = [d \in DOMAIN deals \cup {NewDealId} |->
                             IF d = NewDealId THEN <<>> ELSE products[d]]
           /\ activities' = Append(activities, DealCreatedActivity(NewDealId))
           /\ last' = Call("createDeal", args, NewDealId)
           /\ UNCHANGED <<now, calls, contacts, notes>>

\* DealService.getDealsByStage: the open deals of the pipeline under each of
\* the pipeline's stage ids
GetDealsByStage(pipelineId) ==
  LET open == {d \in DOMAIN deals : /\ deals[d].pipelineId = pipelineId
                                    /\ deals[d].actualCloseDate = Null}
      stages == PipelineStages(pipelineId)
      keys == {stages[i] : i \in 1..Len(stages)}
  IN /\ last' = Call("getDealsByStage", <<pipelineId>>,
                     [s \in keys |-> {d \in open : deals[d].stageId = s}])
     /\ UNCHANGED <<now, data, calls>>

\* SpecPipeline: an empty deals table; deals are created in either pipeline,
\* with or without a stage, moved to any stage, and listed by stage.
InitPipeline ==
  /\ now = 0
  /\ deals = [d \in {} |-> 0]
  /\ products = [d \in {} |-> 0]
  /\ activities = <<>>
  /\ contacts = [c \in ContactIds |-> NewContact]
  /\ notes = NoNotes
  /\ last = Call("init", <<>>, "ok")
  /\ calls = NoCalls

\* The stage ids the callers of SpecPipeline name: two stages of each
\* pipeline, one of them closing, and an id no stage has
StageInputs == {"s2", "s4", "t1", "t3", NoStage}

NextPipeline ==
  \/ \E p \in Pipelines, s \in StageInputs \cup {NotGiven},
        items \in SmallItemLists :
        CreateDeal(p, s, items, "u1")
  \/ \E d \in DealIds, s \in StageInputs :
        MoveDealToStage(d, s, NoReason)
  \/ \E p \in Pipelines : GetDealsByStage(p)
  \/ Tick(MaxTime)

SpecPipeline == InitPipeline /\ [][NextPipeline]_vars

\* ------------------------------------------------------ POST /api/contacts
\* getServerSession: no session, or the session of user u1
NoSession == "null"

\* The ids the database gives contacts created through the route
PostIds == {"c1", "c2"}

\* A request body that is not JSON: request.json() rejects
Malformed ==
  [syntax |-> "not json", firstName |-> NotGiven, lastName |-> NotGiven,
   email |-> NotGiven]

\* The JSON bodies the callers send: a person with or without a first name, a
\* last name and an email
Bodies ==
  [syntax : {"json"},
   firstName : {NotGiven, "", "John", "john"}, lastName : {NotGiven, "Doe"},
   email : {NotGiven, "invalid-email", "john@example.com"}]

\* ContactCreateSchema.safeParse(body).success for a body without a type
\* (PERSON by default): the strings given are at least one character long,
\* the email is an email, and a first or a last name is given
SchemaAccepts(body) ==
  /\ body.firstName # ""
  /\ body.email # "invalid-email"
  /\ body.firstName # NotGiven \/ body.lastName # NotGiven

\* mode: 'insensitive' of duplicateCheck's name conditions
Lower(name) == IF name = "John" THEN "john" ELSE name

\* ContactService.duplicateCheck: the stored contacts with the email, or with
\* the first and the last name whatever their case
DuplicateCheck(contact) ==
  {c \in DOMAIN contacts :
      \/ contact.email # NotGiven /\ contacts[c].email = contact.email
      \/ /\ contact.firstName # NotGiven /\ contact.lastName # NotGiven
         /\ Lower(contacts[c].firstName) = Lower(contact.firstName)
         /\ Lower(contacts[c].lastName) = Lower(contact.lastName)}

Response(status, body) == [kind |-> "response", status |-> status, body |-> body]

\* The function withAuth returns for the handler of POST, called: the session
\* check of withAuth, then the handler.
WithAuthHandler(session, body) ==
  LET args == <<session, body>>
      id == CHOOSE c \in PostIds : c \notin DOMAIN contacts
  IN /\ DOMAIN contacts # PostIds
     /\ IF session = NoSession THEN
           /\ last' = Call("withAuth(handler)", args, Response(401, "Unauthorized"))
           /\ UNCHANGED <<now, data, calls>>
        ELSE IF body = Malformed THEN
           /\ last' = Call("withAuth(handler)", args, [kind |-> "throws"])
           /\ UNCHANGED <<now, data, calls>>
        ELSE IF ~SchemaAccepts(body) THEN
           /\ last' = Call("withAuth(handler)", args,
                           Response(400, "Validation failed"))
           /\ UNCHANGED <<now, data, calls>>
        ELSE IF DuplicateCheck(body) # {} THEN
           /\ last' = Call("withAuth(handler)", args,
                           Response(409, "Potential duplicate found"))
           /\ UNCHANGED <<now, data, calls>>
        ELSE
           /\ contacts' = [c \in DOMAIN contacts \cup {id} |->
                 IF c = id
                 THEN [firstName |-> body.firstName, lastName |-> body.lastName,
                       email |-> body.email, ownerId |-> session]
                 ELSE contacts[c]]
           /\ last' = Call("withAuth(handler)", args, Response(201, id))
           /\ UNCHANGED <<now, deals, products, activities, calls, notes>>

\* export async function POST(request): it returns what withAuth returns,
\* the function, without calling it; neither the session check nor the
\* handler runs.
Post(session, body) ==
  /\ last' = Call("POST", <<session, body>>, [kind |-> "function"])
  /\ UNCHANGED <<now, data, calls>>

\* SpecPost: requests to the route and calls of the wrapped handler, on a
\* contacts table that starts empty.
InitPost ==
  /\ now = 0
  /\ deals = [d \in DealIds |-> InitRow(d)]
  /\ products = [d \in DealIds |-> <<>>]
  /\ activities = <<>>
  /\ contacts = [c \in {} |-> 0]
  /\ notes = NoNotes
  /\ last = Call("init", <<>>, "ok")
  /\ calls = NoCalls

NextPost ==
  \/ \E session \in {NoSession, "u1"}, body \in Bodies \cup {Malformed} :
        Post(session, body)
  \/ \E session \in {NoSession, "u1"}, body \in Bodies \cup {Malformed} :
        WithAuthHandler(session, body)

SpecPost == InitPost /\ [][NextPost]_vars

\* ------------------------------------------------------------ contact merge
\* SpecMerge: one mergeContacts call, statement by statement.  The callback
\* of db.$transaction reads and writes through tx: the call works on its own
\* view of the tables, which is stored when the callback returns and the
\* transaction commits, and dropped when a statement throws.
MergeIds == {"c1", "c2", "c3"}

\* this.mergeContactData(primary, duplicates): the primary's row, with the
\* duplicates it took data from
MergeContactData(primary, duplicates) ==
  [primary EXCEPT !.mergedFrom = @ \cup duplicates]

\* Mutant of Relinked: the notes left with the duplicate.
RelinkedButNotes(tx, duplicate, primaryId) ==
  [tx EXCEPT
     !.deals = [d \in DOMAIN @ |->
                  IF @[d].contactId = duplicate
                  THEN [@[d] EXCEPT !.contactId = primaryId] ELSE @[d]],
     !.activities = [i \in DOMAIN @ |->
                  IF @[i].contactId = duplicate
                  THEN [@[i] EXCEPT !.contactId = primaryId] ELSE @[i]]]

\* The three updateMany of one turn of the loop, on the view of tx: the
\* deals, activities and notes of the duplicate name the primary.
Relinked(tx, duplicate, primaryId) ==
  [tx EXCEPT
     !.deals = [d \in DOMAIN @ |->
                  IF @[d].contactId = duplicate
                  THEN [@[d] EXCEPT !.contactId = primaryId] ELSE @[d]],
     !.activities = [i \in DOMAIN @ |->
                  IF @[i].contactId = duplicate
                  THEN [@[i] EXCEPT !.contactId = primaryId] ELSE @[i]],
     !.notes = [n \in DOMAIN @ |->
                  IF @[n].contactId = duplicate
                  THEN [@[n] EXCEPT !.contactId = primaryId] ELSE @[n]]]

MergeCall(pc, primaryId, duplicateIds, todo, tx) ==
  [pc |-> pc, op |-> "mergeContacts", primaryId |-> primaryId,
   duplicateIds |-> duplicateIds, todo |-> todo, tx |-> tx]

MergeDone(c, result) ==
  [pc |-> "done", op |-> "mergeContacts", primaryId |-> c.primaryId,
   duplicateIds |-> c.duplicateIds, result |-> result]

\* tx.contact.findUnique(primaryId), the NotFoundError, and
\* tx.contact.findMany({ where: { id: { in: duplicateIds } } })
MergeFind(primaryId, duplicateIds) ==
  LET tx == [contacts |-> contacts, deals |-> deals,
             activities |-> activities, notes |-> notes]
      c == MergeCall("loop", primaryId, duplicateIds,
                     duplicateIds \cap DOMAIN contacts, tx)
  IN /\ calls[1].pc = "idle"
     /\ calls' = [calls EXCEPT ![1] =
          IF primaryId \in DOMAIN contacts THEN c
          ELSE MergeDone(c, "NotFound: Primary contact")]
     /\ UNCHANGED <<now, data, last>>

\* One turn of for (const duplicate of duplicates)
MergeRelink ==
  LET c == calls[1] IN
  /\ c.pc = "loop"
  /\ \E duplicate \in c.todo :
        calls' = [calls EXCEPT ![1] =
           MergeCall("loop", c.primaryId, c.duplicateIds, c.todo \ {duplicate},
                     Relinked(c.tx, duplicate, c.primaryId))]
  /\ UNCHANGED <<now, data, last>>

\* tx.contact.deleteMany({ where: { id: { in: duplicateIds } } }).  A contact
\* that a deal names cannot be deleted (Deal.contact is a required relation):
\* the statement throws.
MergeDelete ==
  LET c == calls[1]
      kept == DOMAIN c.tx.contacts \ c.duplicateIds
  IN /\ c.pc = "loop" /\ c.todo = {}
     /\ calls' = [calls EXCEPT ![1] =
          IF \E d \in DOMAIN c.tx.deals :
                c.tx.deals[d].contactId \in c.duplicateIds
          THEN MergeDone(c, "error")
          ELSE MergeCall("update", c.primaryId, c.duplicateIds, {},
                         [c.tx EXCEPT !.contacts = [k \in kept |-> @[k]]])]
     /\ UNCHANGED <<now, data, last>>

\* return tx.contact.update({ where: { id: primaryId }, data: mergedData });
\* the update throws when the row is gone; otherwise the callback returns and
\* the transaction commits.
MergeUpdate ==
  LET c == calls[1] IN
  /\ c.pc = "update"
  /\ IF c.primaryId \notin DOMAIN c.tx.contacts THEN
        /\ calls' = [calls EXCEPT ![1] = MergeDone(c, "error")]
        /\ UNCHANGED <<now, data, last>>
     ELSE
        /\ contacts' = [c.tx.contacts EXCEPT ![c.primaryId] =
              MergeContactData(@, c.duplicateIds \cap DOMAIN contacts)]
        /\ deals' = c.tx.deals
        /\ activities' = c.tx.activities
        /\ notes' = c.tx.notes
        /\ calls' = [calls EXCEPT ![1] = MergeDone(c, "ok")]
        /\ UNCHANGED <<now, products, last>>

\* The statement the call is at (or the commit) throws: the transaction is
\* rolled back.
MergeThrow ==
  /\ calls[1].pc \in {"loop", "update"}
  /\ calls' = [calls EXCEPT ![1] = MergeDone(calls[1], "error")]
  /\ UNCHANGED <<now, data, last>>

InitMerge ==
  /\ now = 0
  /\ \E ids \in {MergeIds, MergeIds \ {"c3"}} :
        /\ contacts = [c \in ids |-> [mergedFrom |-> {}]]
        /\ deals \in [DealIds -> {DealOfContact(d, c) : d \in DealIds, c \in ids}]
        /\ activities \in [1..1 -> [type : {"NOTE_ADDED"}, contactId : ids]]
        /\ notes \in [{"n1"} -> [contactId : ids]]
  /\ \A d \in DealIds : deals[d].ownerId = DealOwner[d]
  /\ products = [d \in DealIds |-> <<>>]
  /\ last = Call("init", <<>>, "ok")
  /\ calls = <<IdleCall>>

NextMerge ==
  \/ \E primaryId \in MergeIds, duplicateIds \in SUBSET MergeIds :
        MergeFind(primaryId, duplicateIds)
  \/ MergeRelink
  \/ MergeDelete
  \/ MergeUpdate
  \/ MergeThrow

SpecMerge == InitMerge /\ [][NextMerge]_vars

\* ------------------------------------------------------------- CSV import
\* SpecImport: one importFromCSV run, a record at a time, on a contacts table
\* that is empty or holds one contact.  The contacts are numbered in the
\* order of their creation.
\* The records parseCSV and mapFields give: an email the schema accepts or
\* rejects, and a first name
ImportRecords ==
  [email : {"ann@example.com", "bob@example.com", "invalid-email"},
   firstName : {"Ann"}]

\* Mutant of Counted: an updated duplicate counted as a success and as a
\* duplicate.
CountedUpdateTwice(results, outcome, row, record) ==
  CASE outcome = "failed" ->
         [results EXCEPT !.failed = @ + 1,
                         !.errors = Append(@, [row |-> row, data |-> record])]
    [] outcome = "skipped" -> [results EXCEPT !.duplicates = @ + 1]
    [] outcome = "updated" ->
         [results EXCEPT !.success = @ + 1, !.duplicates = @ + 1]
    [] OTHER -> [results EXCEPT !.success = @ + 1]

\* The counters of results after one record: results.duplicates++ for a
\* skipped duplicate, results.success++ after update or create, and the
\* catch block for a record that threw
Counted(results, outcome, row, record) ==
  CASE outcome = "failed" ->
         [results EXCEPT !.failed = @ + 1,
                         !.errors = Append(@, [row |-> row, data |-> record])]
    [] outcome = "skipped" -> [results EXCEPT !.duplicates = @ + 1]
    [] OTHER -> [results EXCEPT !.success = @ + 1]

\* const records = await this.parseCSV(file); const results = {...}
ImportStart(records, options) ==
  /\ calls[1].pc = "idle"
  /\ calls' = [calls EXCEPT ![1] =
       [pc |-> "loop", op |-> "importFromCSV", records |-> records,
        options |-> options, i |-> 1,
        results |-> [total |-> Len(records), success |-> 0, failed |-> 0,
                     duplicates |-> 0, errors |-> <<>>]]]
  /\ UNCHANGED <<now, data, last>>

\* One turn of for (const record of records): the schema throws for a bad
\* email; findDuplicates matches on the email; contactService.create throws
\* for an email a contact already has (email is @unique); any call of the
\* database may throw.
ImportRecord ==
  LET c == calls[1]
      record == c.records[c.i]
      valid == record.email # "invalid-email"
      duplicates == {k \in DOMAIN contacts : contacts[k].email = record.email}
      found == c.options.checkDuplicates /\ duplicates # {}
      id == Cardinality(DOMAIN contacts) + 1
  IN /\ c.pc = "loop" /\ c.i <= Len(c.records)
     /\ \E dbThrows \in BOOLEAN :
          LET outcome ==
                IF ~valid THEN "failed"
                ELSE IF c.options.checkDuplicates /\ dbThrows THEN "failed"
                ELSE IF found /\ c.options.skipDuplicates THEN "skipped"
                ELSE IF dbThrows THEN "failed"
                ELSE IF found /\ c.options.updateDuplicates THEN "updated"
                ELSE IF duplicates # {} THEN "failed"
                ELSE "created"
          IN /\ contacts' =
                  CASE outcome = "updated" ->
                         [contacts EXCEPT ![CHOOSE k \in duplicates : TRUE] = record]
                    [] outcome = "created" ->
                         [k \in DOMAIN contacts \cup {id} |->
                            IF k = id THEN record ELSE contacts[k]]
                    [] OTHER -> contacts
             /\ calls' = [calls EXCEPT ![1].i = @ + 1,
                                       ![1].results =
                                          Counted(@, outcome, c.i, record)]
     /\ UNCHANGED <<now, deals, products, activities, notes, last>>

\* return results
ImportReturn ==
  LET c == calls[1] IN
  /\ c.pc = "loop" /\ c.i > Len(c.records)
  /\ calls' = [calls EXCEPT ![1].pc = "done"]
  /\ last' = Call("importFromCSV", <<c.records, c.options>>, c.results)
  /\ UNCHANGED <<now, data>>

InitImport ==
  /\ now = 0
  /\ deals = [d \in DealIds |-> InitRow(d)]
  /\ products = [d \in DealIds |-> <<>>]
  /\ activities = <<>>
  /\ contacts \in {<<>>, <<[email |-> "ann@example.com", firstName |-> "Anna"]>>}
  /\ notes = NoNotes
  /\ last = Call("init", <<>>, "ok")
  /\ calls = <<IdleCall>>

NextImport ==
  \/ \E n \in 0..3 :
       \E records \in [1..n -> ImportRecords],
          options \in [checkDuplicates : BOOLEAN, skipDuplicates : BOOLEAN,
                       updateDuplicates : BOOLEAN] :
          ImportStart(records, options)
  \/ ImportRecord
  \/ ImportReturn

SpecImport == InitImport /\ [][NextImport]_vars

\* SpecRotten: getRottenDeals asked of a deals table drawn from the rows the
\* service can leave behind: any stage, a stage change no later than now, a
\* close date unset or that of the last stage change.
DrawnRow(d, s, t, closed) ==
  [NewDeal(d, s) EXCEPT !.stageChangedAt = t,
                        !.actualCloseDate = IF closed THEN t ELSE Null]

InitRotten ==
  /\ now \in 0..MaxClock
  /\ deals \in [DealIds -> {DrawnRow(d, s, t, c) :
                   d \in DealIds, s \in StageIds, t \in 0..MaxClock, c \in BOOLEAN}]
  /\ \A d \in DealIds : deals[d].ownerId = DealOwner[d]
                        /\ deals[d].stageChangedAt <= now
  /\ products = [d \in DealIds |-> <<>>]
  /\ activities = <<>>
  /\ contacts = [c \in ContactIds |-> NewContact]
  /\ notes = NoNotes
  /\ last = Call("init", <<>>, "ok")
  /\ calls = NoCalls

NextRotten ==
  \/ \E o \in Owners \cup {NoOwner} : GetRottenDeals(o)
  \/ Tick(MaxClock)

SpecRotten == InitRotten /\ [][NextRotten]_vars

\* SpecValue: updateDealValue called on d1 with every list of at most MaxItems
\* distinct products of a catalogue: the three products of the documented
\* scenario and two whose discounted price is not a whole number of cents
\* (19.94 less 10%, once and three times).
Catalog ==
  <<Item(2, 10000, 10), Item(1, 5000, 0), Item(5, 2000, 20),
    Item(1, 1994, 10), Item(3, 1994, 10)>>

ItemLists ==
  {[i \in 1..Len(ix) |-> Catalog[ix[i]]] :
     ix \in {s \in UNION {[1..n -> 1..Len(Catalog)] : n \in 0..MaxItems} :
               \A i \in 1..(Len(s) - 1) : s[i] < s[i + 1]}}

NextValue ==
  \E items \in ItemLists : UpdateDealValue("d1", items)

SpecValue == Init /\ [][NextValue]_vars

\* ================================================================= claims
MovedOk(c) == c.op = "moveDealToStage" /\ c.result = "ok"
ValueOk(c) == c.op = "updateDealValue" /\ c.result = "ok"
Failed(c) ==
  /\ c.op \in {"moveDealToStage", "updateDealValue"}
  /\ c.result \in {"NotFound: Deal", "NotFound: Pipeline stage"}

\* C1: a moveDealToStage call that names an existing deal and an existing stage
\* succeeds, from whatever stage, and right after it the deal has stageId = the
\* target, probability = the target's configured probability and
\* stageChangedAt = the time of the call.
C1_MoveSetsDerivedFields ==
  last.op = "moveDealToStage" =>
    LET d == last.args[1]
        s == last.args[2]
    IN (Exists(d) /\ s \in StageIds) =>
         /\ last.result = "ok"
         /\ deals[d].stageId = s
         /\ deals[d].probability = Stages[s].probability
         /\ deals[d].stageChangedAt = now

\* C1 witness: a deal moved from a terminal stage to that same stage, later.
C1_Witness ==
  /\ MovedOk(last) /\ Len(activities) = 2 /\ now = 1
  /\ activities[2].previousStage = "Closed Won"
  /\ activities[2].newStage = "Closed Won"
  /\ deals["d1"].stageChangedAt = 1

CloseDateMatchesStage(d) ==
  (deals[d].actualCloseDate # Null) <=> Terminal(deals[d].stageId)

\* C2: in every state reached by moveDealToStage calls from open deals without
\* actualCloseDate, actualCloseDate is set iff the current stage is terminal.
C2_CloseDateIffTerminal == \A d \in DealIds : CloseDateMatchesStage(d)

Reopens(d) == Terminal(deals[d].stageId) /\ ~Terminal(deals'[d].stageId)

\* C3: as long as no deal is moved from a terminal stage to a non-terminal one,
\* actualCloseDate is non-null iff the current stage is terminal: the relation
\* holds at the start and every step that is not such a move keeps it.
C3_CloseDateIffTerminalUnlessReopened ==
  /\ \A d \in DealIds : CloseDateMatchesStage(d)
  /\ [][\A d \in DealIds :
          (CloseDateMatchesStage(d) /\ ~Reopens(d)) => CloseDateMatchesStage(d)']_vars

\* C3 witness: a deal that went Lead -> Proposal -> Closed Lost and carries the
\* close date of its last move.
C3_Witness ==
  /\ Len(activities) = 2 /\ MovedOk(last) /\ now = 1
  /\ activities[1].newStage = "Proposal"
  /\ deals["d1"].stageId = "s5"
  /\ deals["d1"].actualCloseDate = 1

MovedToTerminal(c, d) ==
  MovedOk(c) /\ c.args[1] = d /\ c.args[2] \in StageIds /\ Terminal(c.args[2])

\* C4 as claimed: actualCloseDate is assigned at most once, and it changes only
\* in a moveDealToStage step whose target is terminal.
C4_CloseDateAssignedOnce ==
  [][\A d \in DealIds :
       /\ deals[d].actualCloseDate # Null =>
             deals'[d].actualCloseDate = deals[d].actualCloseDate
       /\ deals'[d].actualCloseDate # deals[d].actualCloseDate =>
             MovedToTerminal(last', d)]_vars

\* C4 amended: actualCloseDate changes only in a moveDealToStage step whose
\* target is terminal; every such step, also one that starts in a terminal
\* stage, sets it to the time of the move; no step clears it.
C4_CloseDateWrittenByTerminalMoves ==
  [][\A d \in DealIds :
       /\ deals'[d].actualCloseDate # deals[d].actualCloseDate =>
             MovedToTerminal(last', d)
       /\ MovedToTerminal(last', d) =>
             deals'[d].actualCloseDate = now
       /\ deals[d].actualCloseDate # Null => deals'[d].actualCloseDate # Null]_vars

\* C4 witness: a close date written a second time, by a move between the two
\* terminal stages.
C4_Witness ==
  /\ Len(activities) = 2 /\ MovedOk(last)
  /\ activities[2].previousStage = "Closed Won"
  /\ activities[2].newStage = "Closed Lost"
  /\ deals["d1"].actualCloseDate = 1

\* Request r has made its update of deal d.
Wrote(r, d) ==
  /\ calls[r].pc \in {"log", "done"}
  /\ calls[r].op = "moveDealToStage"
  /\ calls[r].dealId = d
  /\ calls[r].pc = "done" => calls[r].result = "ok"

\* C5: however moveDealToStage calls on one deal and updateDealValue calls
\* interleave, a deal that has been moved has stageId, probability and
\* stageChangedAt as one and the same call wrote them, so its probability is
\* the one configured on the stage its stageId names.
C5_StageFieldsFromOneMove ==
  \A d \in DealIds :
    (\E r \in Reqs : Wrote(r, d)) =>
       /\ \E r \in Reqs :
            /\ Wrote(r, d)
            /\ calls[r].updated.stageId = calls[r].stageId
            /\ deals[d].stageId = calls[r].updated.stageId
            /\ deals[d].probability = calls[r].updated.probability
            /\ deals[d].stageChangedAt = calls[r].updated.stageChangedAt
       /\ deals[d].probability = Stages[deals[d].stageId].probability

\* C5 witness: two moves of d1 that both read it in Lead.  The second to
\* start updated first (to Closed Won, at 0), the first to start updated last
\* (to Proposal, at 1) and logged first: d1 carries the fields of that update.
C5_Witness ==
  /\ \A r \in Reqs : r <= 2 => calls[r].pc = "done" /\ Wrote(r, "d1")
  /\ Len(activities) >= 2
  /\ activities[1].previousStage = "Lead" /\ activities[2].previousStage = "Lead"
  /\ activities[1].newStage = "Proposal" /\ activities[2].newStage = "Closed Won"
  /\ calls[1].stageId = "s3" /\ calls[2].stageId = "s4"
  /\ calls[2].updated.stageChangedAt = 0
  /\ deals["d1"].stageId = "s3" /\ deals["d1"].stageChangedAt = 1
  /\ deals["d1"].actualCloseDate = 0

MissingIds(c) ==
  \/ c.op = "moveDealToStage" /\ (~Exists(c.args[1]) \/ c.args[2] \notin StageIds)
  \/ c.op = "updateDealValue" /\ ~Exists(c.args[1])

\* C6: moveDealToStage with a deal id or a stage id that does not exist, and
\* updateDealValue with a deal id that does not exist, fail with NotFound and
\* write no deal, no line item and no activity.
C6_NotFoundWritesNothing ==
  [][MissingIds(last') => (Failed(last') /\ UNCHANGED data)]_vars

\* C6 witness: a call that named a missing stage for an existing deal, made
\* after the deal had been moved and revalued.
C6_Witness ==
  /\ last = Call("moveDealToStage", <<"d1", NoStage, "price">>,
                 "NotFound: Pipeline stage")
  /\ Len(activities) = 2
  /\ deals["d1"].stageId = "s3"
  /\ Len(products["d1"]) = 1

C8_RottenIffThresholdExceeded ==
  last.op = "getRottenDeals" =>
    last.result =
      {d \in DealIds :
         /\ deals[d].actualCloseDate = Null
         /\ Stages[deals[d].stageId].rottenDays # Null
         /\ (now - deals[d].stageChangedAt) \div DayTicks
               > Stages[deals[d].stageId].rottenDays
         /\ (last.args[1] # NoOwner => DealOwner[d] = last.args[1])}

\* C9: getRottenDeals never returns a deal with an actualCloseDate nor a deal
\* whose stage has rottenDays = null, and it changes no deal, no line item and
\* no activity.
C9_RottenOnlyOpenWithThreshold ==
  [][last'.op = "getRottenDeals" =>
       /\ \A d \in last'.result :
             /\ deals'[d].actualCloseDate = Null
             /\ Stages[deals'[d].stageId].rottenDays # Null
       /\ UNCHANGED data]_vars

\* C9 witness: d2 is returned while d1, as old and in the same stage, is left
\* out for its close date.
C9_Witness ==
  /\ last = Call("getRottenDeals", <<NoOwner>>, {"d2"})
  /\ deals["d1"].stageId = "s3" /\ deals["d2"].stageId = "s3"
  /\ deals["d1"].stageChangedAt = 0 /\ deals["d2"].stageChangedAt = 0
  /\ deals["d1"].actualCloseDate # Null
  /\ now = 2 * DayTicks

\* The sum the specification gives for a list of line items:
\* quantity * unitPrice * (1 - discount / 100), in 1/100 cent.
RECURSIVE LineItemSum(_)
LineItemSum(items) ==
  IF items = <<>> THEN 0
  ELSE items[1].quantity * items[1].unitPrice * (100 - items[1].discount)
          + LineItemSum(Tail(items))

\* C10 as claimed: after a successful updateDealValue(d, items), d.value equals
\* the sum over the items of quantity * unitPrice * (1 - discount / 100).
C10_ValueIsExactSum ==
  ValueOk(last) => deals[last.args[1]].value * 100 = LineItemSum(last.args[2])

\* C10 amended: after a successful updateDealValue(d, items), d.value is that
\* sum rounded to the cent, the scale of the Decimal(12,2) column: it is within
\* half a cent of the sum, equal to it when the sum is a whole number of cents
\* (the documented scenario gives 310), and 0 for the empty list.
C10_ValueIsSumRoundedToCents ==
  ValueOk(last) =>
    LET value == deals[last.args[1]].value * 100
        sum == LineItemSum(last.args[2])
    IN /\ value - sum <= 50 /\ sum - value <= 50
       /\ last.args[2] = <<>> => value = 0
       /\ last.args[2] = <<Item(2, 10000, 10), Item(1, 5000, 0), Item(5, 2000, 20)>>
             => value = 3100000

\* C10 witness: the documented scenario was applied (310), and then one
\* product of 19.94 at 10% off: 17.946, stored as 17.95.
C10_Witness ==
  /\ Len(activities) = 2
  /\ activities[1].newValue = 3100000 /\ activities[1].products = 3
  /\ activities[2].previousValue = 31000
  /\ last = Call("updateDealValue", <<"d1", <<Item(1, 1994, 10)>> >>, "ok")
  /\ deals["d1"].value = 1795

\* C11: updateDealValue is idempotent.  After every successful call the deal's
\* stored line items are the rows of the input, one per input item and in its
\* order (the rows stored before are gone); and a call that follows a call
\* with the same deal and the same items leaves deal.value as that call left it.
C11_ValueUpdateIdempotent ==
  [][ValueOk(last') =>
       LET d == last'.args[1]
           items == last'.args[2]
       IN /\ Len(products'[d]) = Len(items)
          /\ \A i \in 1..Len(items) :
                /\ products'[d][i].dealId = d
                /\ products'[d][i].quantity = items[i].quantity
                /\ products'[d][i].unitPrice = items[i].unitPrice
                /\ products'[d][i].discount = items[i].discount
          /\ (ValueOk(last) /\ last.args = last'.args) =>
                deals'[d].value = deals[d].value]_vars

\* C11 witness: the documented three products applied twice in a row: three
\* rows and 310 after the second call as after the first.
C11_Witness ==
  /\ Len(activities) = 2
  /\ activities[1].products = 3 /\ activities[2].products = 3
  /\ activities[1].newValue = 3100000
  /\ activities[2].previousValue = 31000 /\ activities[2].newValue = 3100000
  /\ ValueOk(last) /\ Len(last.args[2]) = 3
  /\ Len(products["d1"]) = 3
  /\ deals["d1"].value = 31000

\* C13: updateDealValue changes only the deal's value and its line items: the
\* stageId, probability, stageChangedAt and actualCloseDate of every deal are
\* after the call what they were before it; and moveDealToStage, successful or
\* not, leaves every deal's value and every line item as they were.
C13_ValueAndStageFrames ==
  [][/\ last'.op = "updateDealValue" =>
          \A d \in DealIds :
             /\ deals'[d].stageId = deals[d].stageId
             /\ deals'[d].probability = deals[d].probability
             /\ deals'[d].stageChangedAt = deals[d].stageChangedAt
             /\ deals'[d].actualCloseDate = deals[d].actualCloseDate
             /\ d # last'.args[1] =>
                   deals'[d] = deals[d] /\ products'[d] = products[d]
     /\ last'.op = "moveDealToStage" =>
          /\ products' = products
          /\ \A d \in DealIds : deals'[d].value = deals[d].value]_vars

\* C13 witness: a deal closed as won at time 0 and revalued at time 1 keeps
\* its stage, probability, stage-change time and close date.
C13_Witness ==
  /\ now = 1
  /\ last = Call("updateDealValue", <<"d1", <<Item(1, 5000, 0)>> >>, "ok")
  /\ Len(activities) = 2
  /\ activities[1].type = "DEAL_STAGE_CHANGED"
  /\ deals["d1"].value = 5000 /\ Len(products["d1"]) = 1
  /\ deals["d1"].stageId = "s4" /\ deals["d1"].probability = 100
  /\ deals["d1"].stageChangedAt = 0 /\ deals["d1"].actualCloseDate = 0

\* Request r commits its transaction on deal d in this step.
Commits(r, d) ==
  /\ calls[r].pc = "commit" /\ calls[r].dealId = d
  /\ calls'[r].pc = "done" /\ calls'[r].result = "ok"

\* Request r rejects in this step.
Rejects(r) ==
  calls[r].pc # "done" /\ calls'[r].pc = "done" /\ calls'[r].result # "ok"

\* C12: updateDealValue is all-or-nothing.  The stored line items of a deal
\* and the stored deal.value change only in the one step in which a call's
\* transaction commits, and that step stores both the call's rows and the
\* call's value: no stored state has the one without the other.  A call that
\* fails at deleteMany, createMany, the deal update, the activity write or the
\* commit stores no line item and no value in any of its steps.
C12_ValueUpdateAllOrNothing ==
  [][/\ \A d \in DealIds :
          (products'[d] # products[d] \/ deals'[d] # deals[d]) =>
             \E r \in Reqs :
                LET rows == [i \in 1..Len(calls[r].items) |->
                               ProductRow(d, calls[r].items[i])]
                    n == Len(products'[d])
                IN /\ Commits(r, d)
                   /\ deals'[d].value = RoundCents(CalculateDealValue(calls[r].items))
                   /\ n >= Len(rows)
                   /\ SubSeq(products'[d], n - Len(rows) + 1, n) = rows
                   /\ \A i \in 1..(n - Len(rows)) :
                         products'[d][i] \notin calls[r].deleted
     /\ \A r \in Reqs :
          Rejects(r) => (products' = products /\ deals' = deals)]_vars

\* C12 witness: one call committed a product and 50.00; a second call, which
\* marked that row deleted and had value 0 pending, failed after its activity
\* was written: the row and the 50.00 are still stored.
C12_Witness ==
  /\ calls[1].pc = "done" /\ calls[1].result = "ok" /\ Len(calls[1].items) = 1
  /\ calls[2].pc = "done" /\ calls[2].result = "error" /\ calls[2].items = <<>>
  /\ Len(activities) = 2
  /\ activities[2].previousValue = 5000 /\ activities[2].newValue = 0
  /\ Len(products["d1"]) = 1
  /\ deals["d1"].value = 5000

\* The ten edges of the progression graph, as the specification lists them.
Edges ==
  {<<"SUBSCRIBER", "LEAD">>,
   <<"LEAD", "MARKETING_QUALIFIED">>, <<"LEAD", "SALES_QUALIFIED">>,
   <<"MARKETING_QUALIFIED", "SALES_QUALIFIED">>, <<"MARKETING_QUALIFIED", "LEAD">>,
   <<"SALES_QUALIFIED", "OPPORTUNITY">>, <<"SALES_QUALIFIED", "MARKETING_QUALIFIED">>,
   <<"OPPORTUNITY", "CUSTOMER">>, <<"OPPORTUNITY", "SALES_QUALIFIED">>,
   <<"CUSTOMER", "EVANGELIST">>}

\* The call recorded in c was made on an existing contact in stage from.
ProgressFrom(c, from) ==
  /\ c.op = "progressLifecycleStage"
  /\ c.args[1] \in ContactIds
  /\ contacts[c.args[1]].lifecycleStage = from

\* C14: for every pair (from, to) that is not one of the ten edges, self-pairs
\* and pairs from EVANGELIST included, progressLifecycleStage on a contact in
\* stage from with target to fails with INVALID_PROGRESSION and leaves the
\* contact's lifecycleStage and status and the activity log as they were.
C14_NonEdgeRejected ==
  [][\A from \in LifecycleStages :
       (ProgressFrom(last', from) /\ <<from, last'.args[2]>> \notin Edges) =>
          /\ last'.result = "INVALID_PROGRESSION"
          /\ contacts' = contacts
          /\ activities' = activities]_vars

\* C14 witness: a contact progressed to EVANGELIST, then asked to go back to
\* CUSTOMER: refused, and nothing written.
C14_Witness ==
  /\ last = Call("progressLifecycleStage", <<"c1", "CUSTOMER", "price">>,
                 "INVALID_PROGRESSION")
  /\ Len(activities) = 1
  /\ activities[1].previousStage = "CUSTOMER"
  /\ activities[1].newStage = "EVANGELIST"
  /\ contacts["c1"] = [lifecycleStage |-> "EVANGELIST", status |-> "CUSTOMER"]

\* The status the specification derives from a lifecycle stage.
StatusOf(stage) ==
  CASE stage \in {"SUBSCRIBER", "LEAD"} -> "LEAD"
    [] stage = "MARKETING_QUALIFIED" -> "PROSPECT"
    [] stage \in {"SALES_QUALIFIED", "OPPORTUNITY"} -> "QUALIFIED"
    [] stage \in {"CUSTOMER", "EVANGELIST"} -> "CUSTOMER"

\* A progressLifecycleStage call on contact c has succeeded.
Progressed(c) ==
  \E i \in 1..Len(activities) :
     activities[i].type = "LIFECYCLE_CHANGE" /\ activities[i].contactId = c

\* C15: for every edge (from, to), progressLifecycleStage on an existing
\* contact in stage from with target to succeeds and sets lifecycleStage = to
\* and status = the fixed mapping of to; so once a call on a contact has
\* succeeded, the contact's status is the mapping of its lifecycleStage.
C15_EdgeSetsStageAndStatus ==
  /\ [][\A from \in LifecycleStages :
          (ProgressFrom(last', from) /\ <<from, last'.args[2]>> \in Edges) =>
             /\ last'.result = "ok"
             /\ contacts'[last'.args[1]].lifecycleStage = last'.args[2]
             /\ contacts'[last'.args[1]].status = StatusOf(last'.args[2])]_vars
  /\ [](\A c \in ContactIds :
          Progressed(c) => contacts[c].status = StatusOf(contacts[c].lifecycleStage))

\* C15 witness: a contact stored as LEAD with status INACTIVE went to
\* SALES_QUALIFIED and on to OPPORTUNITY: status QUALIFIED.
C15_Witness ==
  /\ last = Call("progressLifecycleStage", <<"c1", "OPPORTUNITY", NoReason>>, "ok")
  /\ Len(activities) = 2
  /\ activities[1].previousStage = "LEAD"
  /\ activities[1].newStage = "SALES_QUALIFIED"
  /\ activities[2].previousStage = "SALES_QUALIFIED"
  /\ contacts["c1"] = [lifecycleStage |-> "OPPORTUNITY", status |-> "QUALIFIED"]

\* C16: in every execution, interleaved progressLifecycleStage calls on one
\* contact included, every change of a contact's stored lifecycleStage goes
\* along an edge of the progression graph (so EVANGELIST is never left, and
\* CUSTOMER is left for EVANGELIST only).
C16_StageChangesAlongEdges ==
  [][\A c \in ContactIds :
       contacts'[c].lifecycleStage # contacts[c].lifecycleStage =>
          <<contacts[c].lifecycleStage, contacts'[c].lifecycleStage>> \in Edges]_vars

\* The deals the last generateForecast call selected.
Selected == ForecastDeals(last.args[1], last.args[2], last.args[3])

RECURSIVE SumOfValues(_)
SumOfValues(ds) ==
  IF ds = {} THEN 0
  ELSE LET d == CHOOSE x \in ds : TRUE IN deals[d].value + SumOfValues(ds \ {d})

\* sum of value * probability, in 1/100 cent
RECURSIVE SumOfWeighted(_)
SumOfWeighted(ds) ==
  IF ds = {} THEN 0
  ELSE LET d == CHOOSE x \in ds : TRUE
       IN deals[d].value * deals[d].probability + SumOfWeighted(ds \ {d})

RECURSIVE SumOfProbabilities(_)
SumOfProbabilities(ds) ==
  IF ds = {} THEN 0
  ELSE LET d == CHOOSE x \in ds : TRUE
       IN deals[d].probability + SumOfProbabilities(ds \ {d})

\* C17: in every Forecast, dealCount is the number of selected deals,
\* totalValue the sum of their values and weightedValue the sum of value *
\* probability / 100; so weightedValue <= totalValue (probabilities are in
\* 0..100 and values are not negative).
C17_ForecastTotals ==
  last.op = "generateForecast" =>
     /\ last.result.dealCount = Cardinality(Selected)
     /\ last.result.totalValue = SumOfValues(Selected)
     /\ last.result.weightedValue = SumOfWeighted(Selected)
     /\ last.result.weightedValue <= 100 * last.result.totalValue

\* C17 witness: a forecast of two deals, 100.00 at 50% and 3.33 at 25%:
\* total 103.33, weighted 50.8325.
C17_Witness ==
  /\ last.op = "generateForecast"
  /\ last.result.dealCount = 2
  /\ last.result.totalValue = 10333
  /\ last.result.weightedValue = 508325
  /\ deals["d1"].probability = 50 /\ deals["d2"].probability = 25

\* C18: generateForecast(period, filters) selects a deal iff it has no
\* actualCloseDate, its expectedCloseDate is in the half-open window
\* startDate <= expectedCloseDate < endDate of the period (a deal due at
\* endDate is left out), and it matches the owner and pipeline filters given.
C18_SelectsHalfOpenWindow ==
  last.op = "generateForecast" =>
     LET w == GetPeriodDates(last.args[1])
         claimed ==
           {d \in DealIds :
              /\ deals[d].actualCloseDate = Null
              /\ w.startDate <= deals[d].expectedCloseDate
              /\ deals[d].expectedCloseDate < w.endDate
              /\ (last.args[2] # NoOwner => deals[d].ownerId = last.args[2])
              /\ (last.args[3] # NoPipeline => deals[d].pipelineId = last.args[3])}
     IN /\ Selected = claimed
        /\ last.result.dealCount = Cardinality(claimed)

\* C19: in every Forecast there is a stage bucket for each stage name of a
\* selected deal and for no other name, and its count, totalValue,
\* weightedValue and averageProbability are the number, the value sum, the
\* weighted sum and the unweighted mean probability of the selected deals in
\* a stage of that name; likewise count and sums per owner name, 'Unassigned'
\* for an owner without a name; and the counts and sums of the stage buckets,
\* and of the owner buckets, add up to dealCount, totalValue, weightedValue.
C19_ForecastBuckets ==
  last.op = "generateForecast" =>
     LET f == last.result
         inStage(n) == {d \in Selected : Stages[deals[d].stageId].name = n}
         nameOf(d) == IF UserName[deals[d].ownerId] = "" THEN "Unassigned"
                      ELSE UserName[deals[d].ownerId]
         ofOwner(n) == {d \in Selected : nameOf(d) = n}
     IN /\ DOMAIN f.byStage = {Stages[deals[d].stageId].name : d \in Selected}
        /\ \A n \in DOMAIN f.byStage :
              /\ f.byStage[n].count = Cardinality(inStage(n))
              /\ f.byStage[n].totalValue = SumOfValues(inStage(n))
              /\ f.byStage[n].weightedValue = SumOfWeighted(inStage(n))
              /\ f.byStage[n].averageProbability.num * Cardinality(inStage(n))
                    = SumOfProbabilities(inStage(n)) * f.byStage[n].averageProbability.den
              /\ f.byStage[n].averageProbability.den > 0
        /\ DOMAIN f.byOwner = {nameOf(d) : d \in Selected}
        /\ \A n \in DOMAIN f.byOwner :
              /\ f.byOwner[n].count = Cardinality(ofOwner(n))
              /\ f.byOwner[n].totalValue = SumOfValues(ofOwner(n))
              /\ f.byOwner[n].weightedValue = SumOfWeighted(ofOwner(n))
        /\ Sum([n \in DOMAIN f.byStage |-> f.byStage[n].count], DOMAIN f.byStage)
              = f.dealCount
        /\ Sum([n \in DOMAIN f.byStage |-> f.byStage[n].totalValue], DOMAIN f.byStage)
              = f.totalValue
        /\ Sum([n \in DOMAIN f.byStage |-> f.byStage[n].weightedValue], DOMAIN f.byStage)
              = f.weightedValue
        /\ Sum([n \in DOMAIN f.byOwner |-> f.byOwner[n].count], DOMAIN f.byOwner)
              = f.dealCount
        /\ Sum([n \in DOMAIN f.byOwner |-> f.byOwner[n].totalValue], DOMAIN f.byOwner)
              = f.totalValue
        /\ Sum([n \in DOMAIN f.byOwner |-> f.byOwner[n].weightedValue], DOMAIN f.byOwner)
              = f.weightedValue
        /\ (f.dealCount = 2 /\ DOMAIN f.byStage = {"Proposal"}
              /\ \A d \in DealIds : deals[d].value = 10000) =>
              /\ f.byStage["Proposal"].totalValue = 20000
              /\ f.byStage["Proposal"].weightedValue = 1000000
              /\ f.byStage["Proposal"].averageProbability = Quotient(100, 2)

\* C19 witness: the documented scenario, two deals of 100.00 at 50% in
\* Proposal, one of a named owner and one of an owner without a name.
C19_Witness ==
  /\ last.op = "generateForecast"
  /\ last.result.dealCount = 2
  /\ DOMAIN last.result.byStage = {"Proposal"}
  /\ last.result.byStage["Proposal"].totalValue = 20000
  /\ last.result.byStage["Proposal"].weightedValue = 1000000
  /\ DOMAIN last.result.byOwner = {"Ann", "Unassigned"}
  /\ last.result.byOwner["Unassigned"].count = 1

\* C20: the confidence of a Forecast is exactly 0 when no deal is selected and
\* lies in 0..100 when deals are (probabilities are in 0..100), whatever the
\* age of each deal; deals of probability 100 updated within 2 days count as
\* 100 each, not 110, so a forecast of such deals alone has confidence 100.
C20_ConfidenceInRange ==
  last.op = "generateForecast" =>
     /\ Selected = {} => last.result.confidence = 0
     /\ last.result.confidence >= 0
     /\ last.result.confidence <= 100
     /\ (Selected # {} /\ \A d \in Selected :
            /\ deals[d].probability = 100
            /\ (now - deals[d].updatedAt) \div DayTicks <= 2) =>
           last.result.confidence = 100

\* C20 witness: two deals of probability 100, one updated today (110, capped
\* at 100) and one 31 days ago (28): confidence 64.
C20_Witness ==
  /\ last.op = "generateForecast"
  /\ last.result.dealCount = 2
  /\ deals["d1"].probability = 100 /\ deals["d1"].updatedAt = now
  /\ deals["d2"].probability = 100 /\ deals["d2"].updatedAt = now - 31 * DayTicks
  /\ last.result.confidence = 64

\* The adjusted confidence of deal d as the specification gives it, in 1/1000:
\* one multiplier, that of the largest threshold the age exceeds.
SingleMultiplierConfidence(d) ==
  LET days == (now - deals[d].updatedAt) \div DayTicks
      c == IF days <= 2 THEN deals[d].probability * 1100
           ELSE IF days <= 7 THEN deals[d].probability * 1000
           ELSE IF days <= 14 THEN deals[d].probability * 800
           ELSE IF days <= 30 THEN deals[d].probability * 700
           ELSE deals[d].probability * 500
  IN IF c < 100000 THEN c ELSE 100000

RECURSIVE SumOfSingleMultiplier(_)
SumOfSingleMultiplier(ds) ==
  IF ds = {} THEN 0
  ELSE LET d == CHOOSE x \in ds : TRUE
       IN SingleMultiplierConfidence(d) + SumOfSingleMultiplier(ds \ {d})

\* C21: the staleness decay is not cumulative: a deal's adjusted confidence is
\* its probability times 1.1 (at most 2 days since the last update), 1 (at
\* most 7), 0.8 (at most 14), 0.7 (at most 30) or 0.5 (more), capped at 100,
\* and the confidence of a forecast is the rounded mean of these.
C21_DecayNotCumulative ==
  (last.op = "generateForecast" /\ Selected # {}) =>
     LET n == Cardinality(Selected)
     IN last.result.confidence
          = (2 * SumOfSingleMultiplier(Selected) + 1000 * n) \div (2000 * n)

\* C22: for a pipeline with n stages in sortOrder, getConversionRates returns
\* exactly n - 1 entries, one per adjacent pair (i, i + 1), each with rate =
\* 100 * (deals closed in the last 12 months that passed through stage i + 1)
\* / (such deals that passed through stage i), and rate 0 when no deal passed
\* through stage i.
C22_OneEntryPerAdjacentPair ==
  last.op = "getConversionRates" =>
     LET stages == PipelineStages(last.args[1])
         ds == ClosedDeals(last.args[1])
         through(s) == {d \in ds : DealPassedThroughStage(d, s)}
     IN /\ Cardinality(DOMAIN last.result) = Len(stages) - 1
        /\ \A i \in 1..(Len(stages) - 1) :
              LET k == <<Stages[stages[i]].name, Stages[stages[i + 1]].name>>
                  from == Cardinality(through(stages[i]))
                  to == Cardinality(through(stages[i + 1]))
              IN /\ k \in DOMAIN last.result
                 /\ last.result[k].deals = from
                 /\ last.result[k].rate.den > 0
                 /\ from = 0 => last.result[k].rate.num = 0
                 /\ from > 0 =>
                       last.result[k].rate.num * from
                          = 100 * to * last.result[k].rate.den

\* C23: calculateNextActions reads and does not write; for an existing contact
\* it returns a HIGH follow-up call exactly when the stage is LEAD and more
\* than 3 days passed since the last contact, a HIGH sales handoff always when
\* MARKETING_QUALIFIED, a MEDIUM opportunity creation exactly when
\* SALES_QUALIFIED with zero associated deals, a LOW check-in exactly when
\* CUSTOMER and more than 30 days passed, and the empty list otherwise.
C23_NextActionsByStage ==
  /\ [](last.op = "calculateNextActions" /\ last.args[1] \in ContactIds =>
          LET c == last.args[1]
              stage == contacts[c].lifecycleStage
              days == (now - contacts[c].lastContactedAt) \div DayTicks
              dealCount == Cardinality({d \in DOMAIN deals : deals[d].contactId = c})
          IN last.result =
               IF stage = "LEAD" /\ days > 3
               THEN <<[type |-> "FOLLOW_UP_CALL", priority |-> "HIGH"]>>
               ELSE IF stage = "MARKETING_QUALIFIED"
               THEN <<[type |-> "SALES_HANDOFF", priority |-> "HIGH"]>>
               ELSE IF stage = "SALES_QUALIFIED" /\ dealCount = 0
               THEN <<[type |-> "CREATE_OPPORTUNITY", priority |-> "MEDIUM"]>>
               ELSE IF stage = "CUSTOMER" /\ days > 30
               THEN <<[type |-> "CHECK_IN", priority |-> "LOW"]>>
               ELSE <<>>)
  /\ [][last'.op = "calculateNextActions" => UNCHANGED data]_vars

\* C24: a deal created by createDeal without a stage, in a pipeline that has a
\* stage, is in the pipeline's stage of smallest sortOrder, with that stage's
\* probability and stageChangedAt the time of creation; a deal created with
\* an explicit stage keeps that stage.
C24_CreatedInFirstStage ==
  [][(last'.op = "createDeal" /\ last'.result \in DealIds) =>
        LET pipelineId == last'.args[1]
            stageId == last'.args[2]
            row == deals'[last'.result]
        IN /\ last'.result \notin DOMAIN deals
           /\ row.pipelineId = pipelineId
           /\ stageId = NotGiven =>
                /\ Stages[row.stageId].pipelineId = pipelineId
                /\ \A s \in DOMAIN Stages :
                      Stages[s].pipelineId = pipelineId =>
                         Stages[row.stageId].sortOrder <= Stages[s].sortOrder
                /\ row.probability = Stages[row.stageId].probability
                /\ row.stageChangedAt = now
           /\ stageId # NotGiven => row.stageId = stageId]_vars

C24_Witness ==
  /\ last.op = "createDeal"
  /\ last.args[1] = "p2"
  /\ last.args[2] = NotGiven
  /\ last.result \in DOMAIN deals
  /\ deals[last.result].stageId = "t1"
  /\ now > 0

\* C28: in every state reached by createDeal and moveDealToStage, the stage
\* of each deal is a stage of the deal's pipeline, and getDealsByStage lists
\* every open deal of the pipeline under exactly one stage key.
C28_StageOfDealsPipeline ==
  /\ \A d \in DOMAIN deals :
        FindStage(deals[d].stageId).pipelineId = deals[d].pipelineId
  /\ last.op = "getDealsByStage" =>
        \A d \in DOMAIN deals :
           (deals[d].pipelineId = last.args[1] /\ deals[d].actualCloseDate = Null)
              => Cardinality({s \in DOMAIN last.result : d \in last.result[s]}) = 1

\* The positions in the log of the stage changes of deal d
StageChanges(d) ==
  {i \in 1..Len(activities) :
      activities[i].type = "DEAL_STAGE_CHANGED" /\ activities[i].dealId = d}

\* C27: once the moveDealToStage calls on a deal have returned, however they
\* interleaved, the deal's stage-change activities form a chain: each one's
\* previousStage is the newStage of the one logged before it for the deal,
\* and the newStage of the latest is the deal's current stage.
C27_StageChangesChain ==
  (\A r \in Reqs : calls[r].pc \in {"idle", "done"}) =>
     \A d \in DOMAIN deals :
        /\ \A i, j \in StageChanges(d) :
              (i < j /\ \A k \in StageChanges(d) : ~(i < k /\ k < j)) =>
                 activities[j].previousStage = activities[i].newStage
        /\ \A j \in StageChanges(d) :
              (\A k \in StageChanges(d) : k <= j) =>
                 activities[j].newStage = FindStage(deals[d].stageId).name

\* The sum of the totalPrice of a sequence of line items
RECURSIVE SumTotalPrice(_)
SumTotalPrice(rows) ==
  IF rows = <<>> THEN 0 ELSE Head(rows).totalPrice + SumTotalPrice(Tail(rows))

\* C26: once the concurrent updateDealValue calls on a deal have completed,
\* however they interleaved, deal.value is the sum of the totalPrice of the
\* stored line items of the deal, and the stored line items are the input of
\* one single call.
C26_ValueMatchesStoredItems ==
  (\A r \in Reqs : calls[r].pc \in {"idle", "done"}) =>
     \A d \in DOMAIN deals :
        (\E r \in Reqs : calls[r].pc = "done" /\ calls[r].dealId = d
                         /\ calls[r].result = "ok") =>
           /\ deals[d].value = SumTotalPrice(products[d])
           /\ \E r \in Reqs :
                 /\ calls[r].pc = "done" /\ calls[r].dealId = d
                 /\ calls[r].result = "ok"
                 /\ products[d] = [i \in 1..Len(calls[r].items) |->
                                     ProductRow(d, calls[r].items[i])]

\* The stored contacts with the email of the body, or with its first and last
\* name
SameContact(body) ==
  {c \in DOMAIN contacts :
      \/ body.email # NotGiven /\ contacts[c].email = body.email
      \/ /\ body.firstName # NotGiven /\ body.lastName # NotGiven
         /\ Lower(contacts[c].firstName) = Lower(body.firstName)
         /\ Lower(contacts[c].lastName) = Lower(body.lastName)}

\* C25: every POST /api/contacts request ends in one of four responses: 401
\* without a session; else 400 "Validation failed" for a body the schema
\* rejects; else 409 when a stored contact has the same email or the same
\* first and last name; else 201 with the created contact, owned by the
\* session user.  Only the 201 outcome creates a contact.
C25_PostOutcomes ==
  [][last'.op = "POST" =>
        LET session == last'.args[1]
            body == last'.args[2]
            res == last'.result
            valid == body # Malformed /\ SchemaAccepts(body)
        IN /\ res.kind = "response"
           /\ res.status \in {401, 400, 409, 201}
           /\ res.status = 401 <=> session = NoSession
           /\ res.status = 400 <=> (session # NoSession /\ ~valid)
           /\ res.status = 409 <=>
                 (session # NoSession /\ valid /\ SameContact(body) # {})
           /\ res.status = 201 =>
                 /\ res.body \notin DOMAIN contacts
                 /\ DOMAIN contacts' = DOMAIN contacts \cup {res.body}
                 /\ contacts'[res.body].ownerId = session
                 /\ \A c \in DOMAIN contacts : contacts'[c] = contacts[c]
           /\ res.status # 201 => contacts' = contacts]_vars

\* C29: mergeContacts is all-or-nothing.  A call that succeeds leaves the
\* primary, no contact with an id in duplicates, every deal, activity and
\* note of a duplicate naming the primary, and as many deals, activities and
\* notes as before.  A call whose primary does not exist, or that names the
\* primary among the duplicates, or that fails at any statement, does not
\* succeed; and no step other than a success deletes a contact or changes a
\* reference.
C29_MergeAllOrNothing ==
  [][LET c == calls[1]
         ok == c.pc # "done" /\ calls'[1].pc = "done" /\ calls'[1].result = "ok"
         dups == c.duplicateIds
     IN /\ ok =>
            /\ c.primaryId \in DOMAIN contacts /\ c.primaryId \in DOMAIN contacts'
            /\ c.primaryId \notin dups
            /\ DOMAIN contacts' = DOMAIN contacts \ dups
            /\ DOMAIN deals' = DOMAIN deals
            /\ Len(activities') = Len(activities)
            /\ DOMAIN notes' = DOMAIN notes
            /\ \A d \in DOMAIN deals :
                  deals'[d].contactId =
                     IF deals[d].contactId \in dups THEN c.primaryId
                     ELSE deals[d].contactId
            /\ \A i \in 1..Len(activities) :
                  activities'[i].contactId =
                     IF activities[i].contactId \in dups THEN c.primaryId
                     ELSE activities[i].contactId
            /\ \A n \in DOMAIN notes :
                  notes'[n].contactId =
                     IF notes[n].contactId \in dups THEN c.primaryId
                     ELSE notes[n].contactId
        /\ ~ok => UNCHANGED data]_vars

\* C29 witness: c2 and c3 merged into c1; the deal d1, the activity and the
\* note were c2's or c3's and are c1's.
C29_Witness ==
  /\ calls[1].pc = "done" /\ calls[1].result = "ok"
  /\ calls[1].primaryId = "c1" /\ calls[1].duplicateIds = {"c2", "c3"}
  /\ DOMAIN contacts = {"c1"}
  /\ contacts["c1"].mergedFrom = {"c2", "c3"}
  /\ \A d \in DOMAIN deals : deals[d].contactId = "c1"
  /\ activities[1].contactId = "c1"
  /\ notes["n1"].contactId = "c1"

\* C30: in every run of importFromCSV, whatever the records and the options,
\* each record adds one to exactly one of success, failed and duplicates, and
\* an entry to errors exactly when it adds to failed; the run ends only after
\* the last record, so the result has total = success + failed + duplicates
\* and as many errors as failed.
C30_EachRecordCountedOnce ==
  /\ [](calls[1].pc \in {"loop", "done"} =>
          LET r == calls[1].results IN
          /\ r.total = Len(calls[1].records)
          /\ r.success + r.failed + r.duplicates = calls[1].i - 1
          /\ Len(r.errors) = r.failed
          /\ calls[1].pc = "done" =>
                /\ r.total = r.success + r.failed + r.duplicates
                /\ last.result = r)
  /\ [][(calls[1].pc = "loop" /\ calls'[1].pc = "loop") =>
          LET r == calls[1].results
              q == calls'[1].results
          IN /\ calls'[1].i = calls[1].i + 1
             /\ <<q.success - r.success, q.failed - r.failed,
                  q.duplicates - r.duplicates>>
                  \in {<<1, 0, 0>>, <<0, 1, 0>>, <<0, 0, 1>>}
             /\ Len(q.errors) - Len(r.errors) = q.failed - r.failed]_vars

\* C30 witness: three records imported with checkDuplicates and
\* updateDuplicates into a table that holds ann@example.com: one updated the
\* contact, one failed the schema, and the run went on to create the third.
C30_Witness ==
  /\ calls[1].pc = "done"
  /\ calls[1].options =
        [checkDuplicates |-> TRUE, skipDuplicates |-> FALSE,
         updateDuplicates |-> TRUE]
  /\ Len(calls[1].records) = 3
  /\ calls[1].records[1].email = "ann@example.com"
  /\ calls[1].records[2].email = "invalid-email"
  /\ calls[1].records[3].email = "bob@example.com"
  /\ last.result.success = 2 /\ last.result.failed = 1
  /\ last.result.duplicates = 0
  /\ last.result.errors[1].row = 2
  /\ Len(contacts) = 2 /\ contacts[1].firstName = "Ann"

====
